---- MODULE Spec2Model ----
(***************************************************************************)
(* Model of the AccuChek download session:                                 *)
(*   src/accuchek-rs/src-tauri/src/usb/protocol.rs                         *)
(* download_samples claims USB interface 0, runs the 13-phase              *)
(* ISO/IEEE 11073 dialog of ProtocolHandler::execute against the meter     *)
(* (the agent), and releases the interface.  The agent and the USB stack   *)
(* are the environment: every transport call may fail, and every read      *)
(* delivers one of a small set of byte strings.                            *)
(* Discovery (find_devices, is_valid_accuchek) is modelled from            *)
(*   src/accuchek-rs/src/usb/device.rs                                     *)
(* and has a specification of its own, DiscoverySpec.                      *)
(***************************************************************************)
EXTENDS Integers, Sequences, FiniteSets, TLC

VARIABLES
    pc,               \* position of download_samples / execute
    phase,            \* ProtocolHandler.phase
    invoke_id,        \* ProtocolHandler.invoke_id (u16)
    buffer,           \* ProtocolHandler.buffer (Vec<u8>)
    pm_store_handle,  \* local of execute, set in phase 4
    samples,          \* local of read_data_segments
    sample_id,        \* local of read_data_segments
    ack,              \* locals status, u0, u1, u2 of read_data_segments
    exec_result,      \* value of protocol.execute() (line 98)
    result,           \* value returned by download_samples
    claimed,          \* interface 0 is recorded as claimed by the handle
    releases,         \* number of release_interface(0) attempts so far
    ops,              \* transport operations performed, in order
    nsegs,            \* data segments read so far in phase 12
    segs,             \* what the agent put into the data segments sent so far
    overflow_checks,  \* the build traps integer overflow (debug profile)
    full_reads,       \* the meter answers with reads that fill the buffer
    bus,              \* the USB devices attached, in enumeration order
    scan_pc,          \* position of find_devices
    scan_index,       \* the device the loop of find_devices is at (from 1)
    found_devices,    \* local found_devices of find_devices
    scan_result,      \* value returned by find_devices
    parked,           \* the state of the download running on the other thread
    current,          \* the thread whose download the variables above hold
    decode_arg,       \* the byte handed to bcd_decode
    decode_out        \* what bcd_decode returned for it (-1: not called yet)

vars == <<pc, phase, invoke_id, buffer, pm_store_handle, samples, sample_id,
          ack, exec_result, result, claimed, releases, ops, nsegs, segs,
          overflow_checks, full_reads, bus, scan_pc, scan_index, found_devices,
          scan_result, parked, current, decode_arg, decode_out>>

\* the call of bcd_decode on its own
decode_vars == <<decode_arg, decode_out>>

\* the download of the other thread
other_session == <<parked, current>>

\* what a download does not touch
outside_session == <<bus, scan_pc, scan_index, found_devices, scan_result,
                     parked, current, decode_arg, decode_out>>

\* what a scan for devices does not touch
session_vars == <<pc, phase, invoke_id, buffer, pm_store_handle, samples,
                  sample_id, ack, exec_result, result, claimed, releases,
                  ops, nsegs, segs, overflow_checks, full_reads>>

----------------------------------------------------------------------------
(* Bounds of the model *)

\* the agent ends the segment stream at the latest with this segment
MaxSegments == 3
\* the most devices attached to the bus
MaxDevices == 2
\* the most data segments each agent sends when two downloads run
MaxSegmentsEach == 2

(* Program constants *)
BUFFER_SIZE == 1024
APDU_TYPE_ASSOCIATION_RESPONSE == 58112          \* 0xE300
APDU_TYPE_ASSOCIATION_RELEASE_REQUEST == 58368   \* 0xE400
APDU_TYPE_PRESENTATION_APDU == 59136             \* 0xE700
DATA_APDU_INVOKE_GET == 259                      \* 0x0103
DATA_APDU_INVOKE_CONFIRMED_ACTION == 263         \* 0x0107
DATA_APDU_RESPONSE_CONFIRMED_EVENT_REPORT == 513 \* 0x0201
EVENT_TYPE_MDC_NOTI_CONFIG == 3356               \* 0x0D1C
EVENT_TYPE_MDC_NOTI_SEGMENT_DATA == 3361         \* 0x0D21
ACTION_TYPE_MDC_ACT_SEG_GET_INFO == 3085         \* 0x0C0D
ACTION_TYPE_MDC_ACT_SEG_TRIG_XFER == 3100        \* 0x0C1C
MDC_MOC_VMO_PMSTORE == 61
\* max_len of the phase-2 read (line 121)
PAIRING_MAX_LEN == 64
\* smallest data segment that is processed (line 361)
MIN_SEGMENT_LEN == 33

----------------------------------------------------------------------------
(* Bytes and big-endian integers *)

Min(a, b) == IF a < b THEN a ELSE b
Max(a, b) == IF a > b THEN a ELSE b

Zeros(n) == [i \in 1..n |-> 0]

Truncate(s, n) == SubSeq(s, 1, Min(n, Len(s)))

\* u16::to_be_bytes, appended by write_be16
write_be16(val) == <<(val \div 256) % 256, val % 256>>

\* A u32 is kept as the pair of its 16-bit halves <<high, low>>
\* (the model's integers are 32-bit signed).
U32(high, low) == <<high, low>>

\* u32::to_be_bytes, appended by write_be32
write_be32(val) ==
    <<(val[1] \div 256) % 256, val[1] % 256,
      (val[2] \div 256) % 256, val[2] % 256>>

\* u16::from_be_bytes([hi, lo])
from_be_bytes16(hi, lo) == hi * 256 + lo

\* u32::from_be_bytes([a, b, c, d])
from_be_bytes32(a, b, c, d) == U32(a * 256 + b, c * 256 + d)

\* (mutant) the high nibble is weighted 16: the byte is returned as it is
bcd_decode_hex(val) ==
    LET high == (val \div 16) % 16
        low  == val % 16
    IN  (high * 16 + low) % 256

\* bcd_decode: the arithmetic is done in u8
bcd_decode(val) ==
    LET high == (val \div 16) % 16
        low  == val % 16
    IN  (high * 10 + low) % 256

----------------------------------------------------------------------------
(* The receive buffer.  A Vec<u8> is kept as its length and its bytes up   *)
(* to some index, every byte beyond `data` being 0.                        *)

\* vec![0u8; BUFFER_SIZE]
NewBuffer == [len |-> BUFFER_SIZE, data |-> <<>>]

\* self.buffer[i], for i below the length
BufByte(b, i) == IF i < Len(b.data) THEN b.data[i + 1] ELSE 0

\* self.buffer.resize(max_len, 0)
Resize(b, max_len) == [len |-> max_len, data |-> Truncate(b.data, max_len)]

\* read_bulk stores the delivered bytes at the start of the buffer and
\* leaves the rest of it as it was
ReadInto(b, delivered) ==
    [len  |-> b.len,
     data |-> delivered \o SubSeq(b.data, Len(delivered) + 1, Len(b.data))]

BufU16(b, off) == from_be_bytes16(BufByte(b, off), BufByte(b, off + 1))

----------------------------------------------------------------------------
(* Frames written by the session *)

\* send_pairing_confirmation: the association response
PairingConfirmationFrame ==
    write_be16(APDU_TYPE_ASSOCIATION_RESPONSE) \o write_be16(44)
    \o write_be16(3) \o write_be16(20601) \o write_be16(38)
    \o write_be32(U32(32768, 2))      \* 0x80000002
    \o write_be16(32768)
    \o write_be32(U32(32768, 0))      \* 0x80000000
    \o write_be32(U32(0, 0))
    \o write_be32(U32(32768, 0))      \* 0x80000000
    \o write_be16(8)
    \o write_be32(U32(4660, 22136))   \* 0x12345678
    \o write_be32(U32(0, 0)) \o write_be32(U32(0, 0))
    \o write_be32(U32(0, 0)) \o write_be16(0)

\* send_config_confirmation
ConfigConfirmationFrame(iid) ==
    write_be16(APDU_TYPE_PRESENTATION_APDU) \o write_be16(22)
    \o write_be16(20) \o write_be16(iid)
    \o write_be16(DATA_APDU_RESPONSE_CONFIRMED_EVENT_REPORT) \o write_be16(14)
    \o write_be16(0) \o write_be32(U32(0, 0))
    \o write_be16(EVENT_TYPE_MDC_NOTI_CONFIG) \o write_be16(4)
    \o write_be16(16384) \o write_be16(0)

\* request_mds_attributes; iid1 is self.invoke_id + 1
MdsAttributesFrame(iid1) ==
    write_be16(APDU_TYPE_PRESENTATION_APDU) \o write_be16(14)
    \o write_be16(12) \o write_be16(iid1)
    \o write_be16(DATA_APDU_INVOKE_GET) \o write_be16(6)
    \o write_be16(0) \o write_be32(U32(0, 0))

\* send_segment_info_request
SegmentInfoFrame(iid1, handle) ==
    write_be16(APDU_TYPE_PRESENTATION_APDU) \o write_be16(20)
    \o write_be16(18) \o write_be16(iid1)
    \o write_be16(DATA_APDU_INVOKE_CONFIRMED_ACTION) \o write_be16(12)
    \o write_be16(handle) \o write_be16(ACTION_TYPE_MDC_ACT_SEG_GET_INFO)
    \o write_be16(6) \o write_be16(1) \o write_be16(2) \o write_be16(0)

\* request_data_segments
DataSegmentsFrame(iid1, handle) ==
    write_be16(APDU_TYPE_PRESENTATION_APDU) \o write_be16(16)
    \o write_be16(14) \o write_be16(iid1)
    \o write_be16(DATA_APDU_INVOKE_CONFIRMED_ACTION) \o write_be16(8)
    \o write_be16(handle) \o write_be16(ACTION_TYPE_MDC_ACT_SEG_TRIG_XFER)
    \o write_be16(2) \o write_be16(0)

\* (mutant) u2 is written as a 32-bit word
SegmentAckFrame_u2wide(iid, handle, u0, u1, u2) ==
    write_be16(APDU_TYPE_PRESENTATION_APDU) \o write_be16(30)
    \o write_be16(28) \o write_be16(iid)
    \o write_be16(DATA_APDU_RESPONSE_CONFIRMED_EVENT_REPORT) \o write_be16(22)
    \o write_be16(handle) \o write_be32(U32(65535, 65535))
    \o write_be16(EVENT_TYPE_MDC_NOTI_SEGMENT_DATA) \o write_be16(12)
    \o write_be32(u0) \o write_be32(u1) \o write_be32(U32(0, u2))
    \o write_be16(128)

\* send_segment_ack
SegmentAckFrame(iid, handle, u0, u1, u2) ==
    write_be16(APDU_TYPE_PRESENTATION_APDU) \o write_be16(30)
    \o write_be16(28) \o write_be16(iid)
    \o write_be16(DATA_APDU_RESPONSE_CONFIRMED_EVENT_REPORT) \o write_be16(22)
    \o write_be16(handle) \o write_be32(U32(65535, 65535))
    \o write_be16(EVENT_TYPE_MDC_NOTI_SEGMENT_DATA) \o write_be16(12)
    \o write_be32(u0) \o write_be32(u1) \o write_be16(u2) \o write_be16(128)

\* disconnect: the association release request
ReleaseRequestFrame ==
    write_be16(APDU_TYPE_ASSOCIATION_RELEASE_REQUEST) \o write_be16(2)
    \o write_be16(0)

----------------------------------------------------------------------------
(* Parsing of received bytes *)

\* Result<Vec<GlucoseSample>>: Ok(samples), or Err of one of the error kinds
Ok(s) == [kind |-> "Ok", err |-> "", msg |-> "", samples |-> s]
Err(err, msg) == [kind |-> "Err", err |-> err, msg |-> msg, samples |-> <<>>]
\* UsbError::Parse(msg)
ParseError(msg) == Err("Parse", msg)
\* a rusb::Error returned by the named call
UsbFailure(call) == Err("Usb", call)
\* UsbError::Transfer, raised by bulk_out on a short write
TransferError == Err("Transfer", "short write")
\* the chrono ParseError propagated by parse_segment_samples
DateError == Err("Chrono", "invalid date")
\* no value yet
NoResult == [kind |-> "None", err |-> "", msg |-> "", samples |-> <<>>]
\* the thread panicked: download_samples returns nothing
Panicked == [kind |-> "Panic", err |-> "", msg |-> "", samples |-> <<>>]

\* (mutant) the refresh is skipped: the previous invoke id is kept
UpdateInvokeId_keep(b, offset) ==
    IF b.len < offset + 2
    THEN [ok |-> FALSE, id |-> 0]
    ELSE [ok |-> TRUE, id |-> invoke_id]

\* update_invoke_id(offset): the guard compares the length of the Vec
UpdateInvokeId(b, offset) ==
    IF b.len < offset + 2
    THEN [ok |-> FALSE, id |-> 0]
    ELSE [ok |-> TRUE, id |-> BufU16(b, offset)]

\* (mutant) the attributes of an object are not skipped
RECURSIVE WalkObjects_noSkip(_, _, _, _, _)
WalkObjects_noSkip(b, bytes_read, offset, i, count) ==
    IF i >= count \/ offset + 8 > bytes_read
    THEN [ok |-> FALSE, handle |-> 0, msg |-> "PM Store not found in config"]
    ELSE IF BufU16(b, offset) = MDC_MOC_VMO_PMSTORE
         THEN [ok |-> TRUE, handle |-> BufU16(b, offset + 2), msg |-> ""]
         ELSE WalkObjects_noSkip(b, bytes_read, offset + 8, i + 1, count)

\* (mutant) the class of the object is not tested
WalkObjects_anyClass(b, bytes_read, offset, i, count) ==
    IF i >= count \/ offset + 8 > bytes_read
    THEN [ok |-> FALSE, handle |-> 0, msg |-> "PM Store not found in config"]
    ELSE [ok |-> TRUE, handle |-> BufU16(b, offset + 2), msg |-> ""]

\* the for loop of parse_pm_store_handle, from object i at `offset`
RECURSIVE WalkObjects(_, _, _, _, _)
WalkObjects(b, bytes_read, offset, i, count) ==
    IF i >= count \/ offset + 8 > bytes_read
    THEN [ok |-> FALSE, handle |-> 0, msg |-> "PM Store not found in config"]
    ELSE LET obj_class  == BufU16(b, offset)
             obj_handle == BufU16(b, offset + 2)
             obj_size   == BufU16(b, offset + 6)
         IN  IF obj_class = MDC_MOC_VMO_PMSTORE
             THEN [ok |-> TRUE, handle |-> obj_handle, msg |-> ""]
             ELSE WalkObjects(b, bytes_read, offset + 8 + obj_size, i + 1, count)

\* parse_pm_store_handle(bytes_read)
ParsePmStoreHandle(b, bytes_read) ==
    IF bytes_read < 24 + 4
    THEN [ok |-> FALSE, handle |-> 0, msg |-> "Config response too small"]
    ELSE WalkObjects(b, bytes_read, 24 + 4, 0, BufU16(b, 24))

\* Gregorian calendar, as chrono's NaiveDate validates a date
IsLeapYear(y) == (y % 4 = 0 /\ y % 100 # 0) \/ y % 400 = 0

DaysInMonth(y, m) ==
    IF m = 2 THEN (IF IsLeapYear(y) THEN 29 ELSE 28)
    ELSE IF m \in {4, 6, 9, 11} THEN 30 ELSE 31

\* NaiveDateTime::parse_from_str("{year}-{mm:02}-{dd:02} {hh:02}:{mn:02}:00",
\* "%Y-%m-%d %H:%M:%S") succeeds; %Y without a sign takes at most 4 digits
ParsesAsDateTime(year, mm, dd, hh, mn) ==
    /\ year <= 9999
    /\ mm \in 1..12
    /\ dd >= 1 /\ dd <= DaysInMonth(year, mm)
    /\ hh <= 23
    /\ mn <= 59

\* one decimal digit as text
Digit(d) == CASE d = 0 -> "0" [] d = 1 -> "1" [] d = 2 -> "2" [] d = 3 -> "3"
              [] d = 4 -> "4" [] d = 5 -> "5" [] d = 6 -> "6" [] d = 7 -> "7"
              [] d = 8 -> "8" [] d = 9 -> "9"

\* format!("{:02}", n) for n in 0..999, as a sequence of characters
Fmt02(n) ==
    IF n >= 100
    THEN <<Digit(n \div 100), Digit((n \div 10) % 10), Digit(n % 10)>>
    ELSE <<Digit(n \div 10), Digit(n % 10)>>

\* (mutant) a space is put between the century and the year
FormatTimestamp_spaced(cc, yy, mm, dd, hh, mn) ==
    Fmt02(cc) \o <<" ">> \o Fmt02(yy) \o <<"/">> \o Fmt02(mm) \o <<"/">>
    \o Fmt02(dd) \o <<" ">> \o Fmt02(hh) \o <<":">> \o Fmt02(mn)

\* format!("{:02}{:02}/{:02}/{:02} {:02}:{:02}", cc, yy, mm, dd, hh, mn)
FormatTimestamp(cc, yy, mm, dd, hh, mn) ==
    Fmt02(cc) \o Fmt02(yy) \o <<"/">> \o Fmt02(mm) \o <<"/">> \o Fmt02(dd)
    \o <<" ">> \o Fmt02(hh) \o <<":">> \o Fmt02(mn)

\* GlucoseSample (epoch and mmol_l are functions of the fields kept here)
GlucoseSample(id, cc, yy, mm, dd, hh, mn, vv) ==
    [id |-> id, mg_dl |-> vv,
     timestamp |-> FormatTimestamp(cc, yy, mm, dd, hh, mn)]

\* (mutant) only the low byte of the status word is tested
IsValidSample_lowbyte(ss) == ss % 256 = 0

\* (mutant) the length test is missing
SegmentTooSmall_never(bytes_read) == FALSE

\* (mutant) bit 0x80 is tested
IsLastSegment_0x80(status) == (status \div 128) % 2 # 0

\* (mutant) the status word is not tested: every entry is converted
IsValidSample_any(ss) == TRUE

\* `if ss == 0`: the entry is a valid sample
IsValidSample(ss) == ss = 0

\* `if bytes_read < 33` in read_data_segments
SegmentTooSmall(bytes_read) == bytes_read < MIN_SEGMENT_LEN

\* `if status & 0x40 != 0` in read_data_segments
IsLastSegment(status) == (status \div 64) % 2 # 0

\* (mutant) only the 12 bytes of the entry's own stride must be there
EntryCutOff_ownStride(offset, bytes_read) == offset + 12 > bytes_read

\* (mutant) the walk is not bounded by the bytes read
EntryCutOff_never(offset, bytes_read) == FALSE

\* `if offset + 18 > bytes_read { break; }` in parse_segment_samples
EntryCutOff(offset, bytes_read) == offset + 18 > bytes_read

\* (mutant) value and status are read right after the date, inside the
\* entry's own 12 bytes
ReadEntry_ownStride(b, offset) ==
    [cc |-> bcd_decode(BufByte(b, offset)),
     yy |-> bcd_decode(BufByte(b, offset + 1)),
     mm |-> bcd_decode(BufByte(b, offset + 2)),
     dd |-> bcd_decode(BufByte(b, offset + 3)),
     hh |-> bcd_decode(BufByte(b, offset + 4)),
     mn |-> bcd_decode(BufByte(b, offset + 5)),
     vv |-> BufU16(b, offset + 8),
     ss |-> BufU16(b, offset + 10)]

\* parse_segment_samples, lines 423-432: the fields of the entry whose
\* cursor is `offset`
ReadEntry(b, offset) ==
    [cc |-> bcd_decode(BufByte(b, offset + 6)),
     yy |-> bcd_decode(BufByte(b, offset + 7)),
     mm |-> bcd_decode(BufByte(b, offset + 8)),
     dd |-> bcd_decode(BufByte(b, offset + 9)),
     hh |-> bcd_decode(BufByte(b, offset + 10)),
     mn |-> bcd_decode(BufByte(b, offset + 11)),
     vv |-> BufU16(b, offset + 14),
     ss |-> BufU16(b, offset + 16)]

\* the for loop of parse_segment_samples from entry i at `offset`; `acc` are
\* the samples pushed so far, `sid` is *sample_id.  `gap` is the index of the
\* entry whose local time does not exist or is ambiguous in the host's time
\* zone (-1: none), for which from_local_datetime(..).unwrap() panics.
RECURSIVE WalkEntries(_, _, _, _, _, _, _, _)
WalkEntries(b, bytes_read, offset, i, nb_entries, sid, acc, gap) ==
    IF i >= nb_entries \/ EntryCutOff(offset, bytes_read)
    THEN [outcome |-> "Ok", samples |-> acc, sample_id |-> sid]
    ELSE LET e  == ReadEntry(b, offset)
             cc == e.cc
             yy == e.yy
             mm == e.mm
             dd == e.dd
             hh == e.hh
             mn == e.mn
             vv == e.vv
             ss == e.ss
         IN  IF IsValidSample(ss)
             THEN IF ~ParsesAsDateTime(cc * 100 + yy, mm, dd, hh, mn)
                  THEN [outcome |-> "Err", samples |-> <<>>, sample_id |-> sid]
                  ELSE IF gap = i
                  THEN [outcome |-> "Panic", samples |-> <<>>, sample_id |-> sid]
                  ELSE WalkEntries(b, bytes_read, offset + 12, i + 1, nb_entries,
                           sid + 1,
                           Append(acc, GlucoseSample(sid, cc, yy, mm, dd, hh, mn, vv)),
                           gap)
             ELSE WalkEntries(b, bytes_read, offset + 12, i + 1, nb_entries,
                      sid, acc, gap)

\* (mutant) the ids restart at 0 in every segment
ParseSegmentSamples_restart(b, sid, bytes_read, gap) ==
    IF bytes_read < 32
    THEN [outcome |-> "Ok", samples |-> <<>>, sample_id |-> sid]
    ELSE LET r == WalkEntries(b, bytes_read, 30, 0, BufU16(b, 30), 0, <<>>, gap)
         IN  [outcome |-> r.outcome, samples |-> r.samples,
              sample_id |-> sid + Len(r.samples)]

\* parse_segment_samples(&mut sample_id, bytes_read)
ParseSegmentSamples(b, sid, bytes_read, gap) ==
    IF bytes_read < 32
    THEN [outcome |-> "Ok", samples |-> <<>>, sample_id |-> sid]
    ELSE WalkEntries(b, bytes_read, 30, 0, BufU16(b, 30), sid, <<>>, gap)

----------------------------------------------------------------------------
(* The highest index at which each routine reads self.buffer (-1: it reads *)
(* nothing); an index at or beyond the length of the Vec would panic       *)

\* bulk_in: the slice &mut self.buffer[..max_len] handed to read_bulk
TopOfBulkIn(max_len) == max_len - 1

\* update_invoke_id(offset): buffer[offset], buffer[offset + 1]
TopOfUpdateInvokeId(b, offset) ==
    IF b.len < offset + 2 THEN -1 ELSE offset + 1

\* the for loop of parse_pm_store_handle: buffer[offset .. offset + 7]
RECURSIVE TopOfWalkObjects(_, _, _, _, _)
TopOfWalkObjects(b, bytes_read, offset, i, count) ==
    IF i >= count \/ offset + 8 > bytes_read
    THEN -1
    ELSE IF BufU16(b, offset) = MDC_MOC_VMO_PMSTORE
         THEN offset + 7
         ELSE Max(offset + 7,
                  TopOfWalkObjects(b, bytes_read, offset + 8 + BufU16(b, offset + 6),
                                   i + 1, count))

\* parse_pm_store_handle(bytes_read): buffer[24], buffer[25], then the loop
TopOfParsePmStoreHandle(b, bytes_read) ==
    IF bytes_read < 24 + 4
    THEN -1
    ELSE Max(25, TopOfWalkObjects(b, bytes_read, 24 + 4, 0, BufU16(b, 24)))

\* the for loop of parse_segment_samples: buffer[offset + 6 .. offset + 17]
\* of every entry walked; `top` is the highest index read so far
RECURSIVE TopOfWalkEntries(_, _, _, _, _, _)
TopOfWalkEntries(b, bytes_read, offset, i, nb_entries, top) ==
    IF i >= nb_entries \/ EntryCutOff(offset, bytes_read)
    THEN top
    ELSE IF IsValidSample(BufU16(b, offset + 16))
            /\ ~ParsesAsDateTime(ReadEntry(b, offset).cc * 100
                                    + ReadEntry(b, offset).yy,
                                 ReadEntry(b, offset).mm, ReadEntry(b, offset).dd,
                                 ReadEntry(b, offset).hh, ReadEntry(b, offset).mn)
         THEN offset + 17
         ELSE TopOfWalkEntries(b, bytes_read, offset + 12, i + 1, nb_entries,
                               offset + 17)

\* parse_segment_samples(.., bytes_read): buffer[30], buffer[31], then the loop
TopOfParseSegmentSamples(b, bytes_read) ==
    IF bytes_read < 32
    THEN -1
    ELSE TopOfWalkEntries(b, bytes_read, 30, 0, BufU16(b, 30), 31)

\* one turn of read_data_segments after its bulk_in: buffer[32],
\* update_invoke_id(6), buffer[22 .. 31], parse_segment_samples
TopOfReadDataSegment(b, bytes_read) ==
    IF SegmentTooSmall(bytes_read)
    THEN -1
    ELSE IF ~UpdateInvokeId(b, 6).ok
         THEN 32
         ELSE Max(32, TopOfParseSegmentSamples(b, bytes_read))

\* what execute and read_data_segments read of the buffer after the read
\* logged as `o` left it as `b`
TopOfParsing(o, b) ==
    IF o.op # "read" \/ o.res # "ok"
    THEN -1
    ELSE CASE o.name = "config info" ->
                 IF ~UpdateInvokeId(b, 6).ok THEN -1
                 ELSE Max(TopOfUpdateInvokeId(b, 6),
                          TopOfParsePmStoreHandle(b, Len(o.data)))
           [] o.name \in {"MDS attribute answer", "action request response",
                          "segment headers"} ->
                 TopOfUpdateInvokeId(b, 6)
           [] o.name = "data segment" -> TopOfReadDataSegment(b, Len(o.data))
           [] OTHER -> -1

----------------------------------------------------------------------------
(* The agent: what a read can deliver *)

\* bytes with the APDU type 0xE7 first and `iid` at offset 6, n >= 8 long
Header(iid, n) ==
    [i \in 1..n |-> CASE i = 1 -> 231
                      [] i = 7 -> (iid \div 256) % 256
                      [] i = 8 -> iid % 256
                      [] OTHER -> 0]

\* phase 2: the association request (content is never interpreted)
PairingRequests == { <<>>, <<226, 0, 0, 4, 0, 0, 119, 119>> }

\* one object of a configuration report: class, handle, attr_count, size
\* and `size` bytes of attributes
ConfigObject(class, handle, size) ==
    write_be16(class) \o write_be16(handle) \o write_be16(0)
    \o write_be16(size) \o Zeros(size)

RECURSIVE ConfigObjects(_)
ConfigObjects(objects) ==
    IF objects = <<>> THEN <<>>
    ELSE ConfigObject(objects[1].class, objects[1].handle, objects[1].size)
         \o ConfigObjects(Tail(objects))

Object(class, handle, size) == [class |-> class, handle |-> handle, size |-> size]

\* a configuration report `c`: c.count at offset 24, the objects from
\* offset 28; cut to c.len bytes
ConfigBytes(c) ==
    Truncate(Header(c.iid, 24) \o write_be16(c.count) \o <<0, 0>>
             \o ConfigObjects(c.objects), c.len)

Config(iid, count, objects, len) ==
    [iid |-> iid, count |-> count, objects |-> objects, len |-> len]

\* phase 4: what the agent may send as its configuration
ConfigChoices ==
    { \* the PM-store is the only object
      Config(261, 1, <<Object(61, 16, 0)>>, 36),
      \* the PM-store follows an object with 4 bytes of attributes
      Config(262, 2, <<Object(99, 1, 4), Object(61, 515, 0)>>, 48),
      \* the PM-store, reported with invoke id 0xFFFF
      Config(65535, 1, <<Object(61, 16, 0)>>, 36),
      \* no PM-store
      Config(263, 1, <<Object(99, 7, 0)>>, 36),
      \* cut inside the header of the PM-store object
      Config(264, 2, <<Object(99, 1, 4), Object(61, 515, 0)>>, 44),
      \* cut before the object count
      Config(265, 1, <<Object(61, 16, 0)>>, 20),
      \* nothing delivered
      Config(266, 0, <<>>, 0),
      \* two PM-stores, the first with 2 bytes of attributes
      Config(267, 2, <<Object(61, 7, 2), Object(61, 8, 0)>>, 46),
      \* the PM-store is the second object but the count is 1
      Config(268, 1, <<Object(99, 1, 0), Object(61, 9, 0)>>, 44),
      \* three objects announced, two delivered, none a PM-store
      Config(269, 3, <<Object(99, 1, 0), Object(98, 2, 0)>>, 44) }

ConfigResponses == { ConfigBytes(c) : c \in ConfigChoices }

\* phases 7, 9, 11 and 13: a full answer carrying an invoke id, or 4 bytes
AnswerResponses(iid) == { Header(iid, 8), <<231, 0, 0, 0>> }

GoodDate == <<32, 36, 3, 21, 9, 48>>   \* BCD 20 24 03 15 09 30
BadDate  == <<32, 36, 19, 21, 9, 48>>  \* BCD month 13
\* the year byte 0xFF is not BCD: it decodes to 165, the year to 1165
NonBcdDate == <<16, 255, 3, 21, 9, 48>>
\* the month byte 0x1A is not BCD: it decodes to 20
NibbleDate == <<32, 36, 26, 21, 9, 48>>

Entry(bcd, value, status) == [bcd |-> bcd, value |-> value, status |-> status]

\* The bytes of a data segment `d`: iid at 6, the 8 bytes d.u at 22..29,
\* d.nb at 30, the status byte d.sb at 32, and entry i laid out from
\* 30 + 12 * i with its date at +6..+11, value at +14 and status at +16;
\* cut to d.len bytes.
SegmentBytes(d) ==
    [k1 \in 1..d.len |->
        LET k == k1 - 1
            r == k - 30
            i == r \div 12
        IN  CASE k = 0 -> 231
              [] k = 6 -> (d.iid \div 256) % 256
              [] k = 7 -> d.iid % 256
              [] k \in 22..29 -> d.u[k - 21]
              [] k = 30 -> (d.nb \div 256) % 256
              [] k = 31 -> d.nb % 256
              [] k = 32 -> d.sb
              [] r >= 6 /\ r % 12 \in 6..11 /\ i < Len(d.entries)
                   -> d.entries[i + 1].bcd[(r % 12) - 5]
              [] r >= 14 /\ r % 12 \in 2..5 /\ i - 1 < Len(d.entries)
                   -> LET e == d.entries[i]
                      IN  (CASE r % 12 = 2 -> (e.value \div 256) % 256
                             [] r % 12 = 3 -> e.value % 256
                             [] r % 12 = 4 -> (e.status \div 256) % 256
                             [] r % 12 = 5 -> e.status % 256)
              [] OTHER -> 0]

Segment(iid, u, nb, entries, sb, len) ==
    [iid |-> iid, u |-> u, nb |-> nb, entries |-> entries, sb |-> sb, len |-> len]

\* phase 12: what the agent may send as a data segment
SegmentChoices ==
    { \* three entries, the second one filtered; more segments follow
      Segment(769, <<1, 2, 3, 4, 5, 6, 7, 8>>, 3,
              <<Entry(GoodDate, 120, 0), Entry(GoodDate, 99, 1),
                Entry(GoodDate, 258, 0)>>, 128, 72),
      \* no entry; more segments follow
      Segment(770, <<9, 10, 11, 12, 13, 14, 15, 16>>, 0, <<>>, 191, 33),
      \* one entry, last segment
      Segment(771, <<17, 18, 19, 20, 21, 22, 23, 24>>, 1,
              <<Entry(GoodDate, 300, 0)>>, 64, 48),
      \* three entries announced, cut inside the second one, last segment
      Segment(772, <<25, 26, 27, 28, 29, 30, 31, 32>>, 3,
              <<Entry(GoodDate, 130, 0), Entry(GoodDate, 131, 0),
                Entry(GoodDate, 132, 0)>>, 64, 59),
      \* every entry filtered by its status, last segment
      Segment(773, <<33, 34, 35, 36, 37, 38, 39, 40>>, 2,
              <<Entry(BadDate, 140, 1), Entry(GoodDate, 141, 256)>>, 192, 60),
      \* an entry with status 0 and month 13, last segment
      Segment(774, <<41, 42, 43, 44, 45, 46, 47, 48>>, 2,
              <<Entry(GoodDate, 150, 0), Entry(BadDate, 151, 0)>>, 64, 60),
      \* fewer than 33 bytes
      Segment(775, <<49, 50, 51, 52, 53, 54, 55, 56>>, 1,
              <<Entry(GoodDate, 160, 0)>>, 64, 20),
      \* one entry whose year byte is not BCD, last segment
      Segment(776, <<57, 58, 59, 60, 61, 62, 63, 64>>, 1,
              <<Entry(NonBcdDate, 170, 0)>>, 64, 48),
      \* month byte 0x1A in an entry that is filtered and in one with
      \* status 0, last segment
      Segment(779, <<81, 82, 83, 84, 85, 86, 87, 88>>, 3,
              <<Entry(GoodDate, 190, 0), Entry(NibbleDate, 191, 2),
                Entry(NibbleDate, 192, 0)>>, 64, 72) }

\* A meter that fills the buffer of every read it can: the association
\* request has 64 bytes, the configuration reports and the data segments
\* have 1024.
FullPairingRequests == { <<>>, [i \in 1..PAIRING_MAX_LEN |-> IF i = 1 THEN 226 ELSE 0] }

FullConfigChoices ==
    { \* the header of the PM-store object is the last 8 bytes of the buffer
      Config(261, 2, <<Object(99, 1, 980), Object(61, 16, 0)>>, BUFFER_SIZE),
      \* three objects announced, two delivered up to the last byte, no PM-store
      Config(263, 3, <<Object(99, 1, 980), Object(98, 2, 0)>>, BUFFER_SIZE),
      \* a short report with invoke id 0xFFFF
      Config(65535, 1, <<Object(61, 16, 0)>>, 36),
      \* nothing delivered
      Config(266, 0, <<>>, 0) }

FullSegmentChoices ==
    { \* 100 entries announced, 82 delivered whole, all filtered; last segment
      Segment(777, <<65, 66, 67, 68, 69, 70, 71, 72>>, 100,
              [i \in 1..84 |-> Entry(GoodDate, 180, 1)], 64, BUFFER_SIZE),
      \* two entries followed by zeros up to the end of the buffer; more
      \* segments follow
      Segment(778, <<73, 74, 75, 76, 77, 78, 79, 80>>, 2,
              <<Entry(GoodDate, 201, 0), Entry(GoodDate, 202, 1)>>, 128,
              BUFFER_SIZE),
      \* one entry, last segment
      Segment(771, <<17, 18, 19, 20, 21, 22, 23, 24>>, 1,
              <<Entry(GoodDate, 300, 0)>>, 64, 48),
      \* fewer than 33 bytes
      Segment(775, <<49, 50, 51, 52, 53, 54, 55, 56>>, 1,
              <<Entry(GoodDate, 160, 0)>>, 64, 20) }

\* what the meter at hand may send
PairingsOffered == IF full_reads THEN FullPairingRequests ELSE PairingRequests
ConfigsOffered ==
    IF full_reads THEN { ConfigBytes(c) : c \in FullConfigChoices }
    ELSE ConfigResponses
SegmentsOffered == IF full_reads THEN FullSegmentChoices ELSE SegmentChoices

\* the agent ends the stream with this segment: it is cut short of its
\* status byte, or marked last by bit 0x40 of that byte
EndsStream(d) == d.len <= 32 \/ (d.sb \div 64) % 2 = 1

\* outcomes of read_bulk: an error, or a delivery of one of `deliveries`
ReadOutcomes(deliveries) ==
    {[res |-> "err", data |-> <<>>]}
    \cup {[res |-> "ok", data |-> d] : d \in deliveries}

\* outcomes of write_bulk: all bytes written, fewer written, or an error
WriteOutcomes == {"ok", "short", "err"}

----------------------------------------------------------------------------
(* State *)

\* one transport call: read_control, read_bulk or write_bulk, with the
\* bytes it carried and how it ended
TransportOp(op, name, max_len, data, res) ==
    [op |-> op, name |-> name, max_len |-> max_len, data |-> data, res |-> res]

NoAck == [status |-> 0, u0 |-> U32(0, 0), u1 |-> U32(0, 0), u2 |-> 0]

\* nothing has been downloaded yet
SessionInit ==
    /\ pc = "open"
    /\ phase = 0
    /\ invoke_id = 0
    /\ buffer = [len |-> 0, data |-> <<>>]
    /\ pm_store_handle = 0
    /\ samples = <<>>
    /\ sample_id = 0
    /\ ack = NoAck
    /\ exec_result = NoResult
    /\ result = NoResult
    /\ claimed = FALSE
    /\ releases = 0
    /\ ops = <<>>
    /\ nsegs = 0
    /\ segs = <<>>
    /\ overflow_checks \in BOOLEAN

\* the state of one download: the fields of its ProtocolHandler, the
\* locals of download_samples, execute and read_data_segments, its device
\* handle and the log of its transport operations
SessionRecord(s_pc, s_phase, s_invoke_id, s_buffer, s_pm_store_handle, s_samples, s_sample_id, s_ack, s_exec_result, s_result, s_claimed, s_releases, s_ops, s_nsegs, s_segs) ==
    [pc |-> s_pc, phase |-> s_phase, invoke_id |-> s_invoke_id,
     buffer |-> s_buffer, pm_store_handle |-> s_pm_store_handle,
     samples |-> s_samples, sample_id |-> s_sample_id, ack |-> s_ack,
     exec_result |-> s_exec_result, result |-> s_result,
     claimed |-> s_claimed, releases |-> s_releases, ops |-> s_ops,
     nsegs |-> s_nsegs, segs |-> s_segs]

\* the download of the other thread has not started
NotStarted ==
    SessionRecord("open", 0, 0, [len |-> 0, data |-> <<>>], 0, <<>>, 0, NoAck,
                  NoResult, NoResult, FALSE, 0, <<>>, 0, <<>>)

\* no scan is under way
NoScan ==
    /\ bus = <<>>
    /\ scan_pc = "idle"
    /\ scan_index = 0
    /\ found_devices = <<>>
    /\ scan_result = [kind |-> "None", msg |-> "", devices |-> <<>>]

\* bcd_decode is not looked at on its own
NoDecode ==
    /\ decode_arg = 0
    /\ decode_out = -1

Init ==
    /\ SessionInit
    /\ full_reads = FALSE
    /\ NoScan
    /\ NoDecode
    /\ parked = NotStarted
    /\ current = 1

\* (mutant) the handle is dropped without releasing what it claimed
DropHandle_leak ==
    /\ releases' = releases
    /\ claimed' = FALSE

\* Drop of rusb::DeviceHandle when `handle` / `protocol` goes out of scope:
\* an interface still recorded as claimed is released
DropHandle ==
    /\ releases' = IF claimed THEN releases + 1 ELSE releases
    /\ claimed' = FALSE

\* a panic unwinds download_samples, dropping `protocol`
Panic ==
    /\ pc' = "done"
    /\ result' = Panicked
    /\ DropHandle

\* (mutant) on an error the samples collected so far are returned
Abort_partial(e) ==
    /\ exec_result' = IF samples # <<>> THEN Ok(samples) ELSE e
    /\ pc' = "release"

\* (mutant) an error inside execute goes through disconnect before it is
\* returned
Abort_viaDisconnect(e) ==
    /\ exec_result' = e
    /\ pc' = "p13w"

\* `?` inside execute: execute returns Err(e) to line 98
Abort(e) ==
    /\ exec_result' = e
    /\ pc' = "release"

session_locals == <<pm_store_handle, samples, sample_id, ack, nsegs, segs>>

----------------------------------------------------------------------------
(* download_samples, up to the call of execute *)

\* lines 45-71: find and open the device, detach the kernel driver, set
\* the configuration; any of these may fail
OpenDevice ==
    /\ pc = "open"
    /\ \E ok \in BOOLEAN :
          IF ok THEN pc' = "claim" /\ result' = result
          ELSE pc' = "done" /\ result' = UsbFailure("open")
    /\ UNCHANGED <<phase, invoke_id, buffer, exec_result, claimed, releases,
                   ops, overflow_checks, full_reads, session_locals, outside_session>>

\* line 75: handle.claim_interface(0)?
ClaimInterface ==
    /\ pc = "claim"
    /\ \E ok \in BOOLEAN :
          IF ok THEN pc' = "set_alt" /\ claimed' = TRUE /\ result' = result
          ELSE pc' = "done" /\ claimed' = claimed
               /\ result' = UsbFailure("claim_interface")
    /\ UNCHANGED <<phase, invoke_id, buffer, exec_result, releases, ops,
                   overflow_checks, full_reads, session_locals, outside_session>>

\* lines 78-96: handle.set_alternate_setting(0, 0)?, then the
\* ProtocolHandler is built
SetAlternateSetting ==
    /\ pc = "set_alt"
    /\ \E ok \in BOOLEAN :
          IF ok
          THEN /\ pc' = "p1"
               /\ buffer' = NewBuffer
               /\ invoke_id' = 0
               /\ phase' = 1
               /\ UNCHANGED <<result, claimed, releases>>
          ELSE /\ pc' = "done"
               /\ result' = UsbFailure("set_alternate_setting")
               /\ DropHandle
               /\ UNCHANGED <<buffer, invoke_id, phase>>
    /\ UNCHANGED <<exec_result, ops, overflow_checks, full_reads, session_locals,
                   outside_session>>

----------------------------------------------------------------------------
(* The transport calls of ProtocolHandler *)

\* control_transfer_in (phase 1)
ControlTransferIn ==
    /\ pc = "p1"
    /\ \E res \in {"ok", "err"} :
          /\ ops' = Append(ops, TransportOp("control_in", "GET_STATUS", 2, <<>>, res))
          /\ IF res = "ok"
             THEN phase' = phase + 1 /\ pc' = "p2" /\ UNCHANGED exec_result
             ELSE phase' = phase /\ Abort(UsbFailure("read_control"))
    /\ UNCHANGED <<invoke_id, buffer, result, claimed, releases,
                   overflow_checks, full_reads, session_locals, outside_session>>

\* (mutant) the number of bytes written is not compared with the length
\* of the frame
BulkOut_unchecked(here, next, name, data) ==
    /\ pc = here
    /\ \E w \in WriteOutcomes :
          /\ ops' = Append(ops, TransportOp("write", name, Len(data), data, w))
          /\ IF w \in {"ok", "short"}
             THEN phase' = phase + 1 /\ pc' = next /\ UNCHANGED exec_result
             ELSE /\ phase' = phase
                  /\ Abort(UsbFailure("write_bulk"))
    /\ UNCHANGED <<invoke_id, buffer, result, claimed, releases,
                   overflow_checks, full_reads, session_locals, outside_session>>

\* bulk_out(name, data) called at `here`; execution continues at `next`
BulkOut(here, next, name, data) ==
    /\ pc = here
    /\ \E w \in WriteOutcomes :
          /\ ops' = Append(ops, TransportOp("write", name, Len(data), data, w))
          /\ IF w = "ok"
             THEN phase' = phase + 1 /\ pc' = next /\ UNCHANGED exec_result
             ELSE /\ phase' = phase
                  /\ Abort(IF w = "short" THEN TransferError
                           ELSE UsbFailure("write_bulk"))
    /\ UNCHANGED <<invoke_id, buffer, result, claimed, releases,
                   overflow_checks, full_reads, session_locals, outside_session>>

\* (mutant) a failed read is tried again
BulkInFails_retry(name, max_len) ==
    /\ ops' = Append(ops, TransportOp("read", name, max_len, <<>>, "err"))
    /\ buffer' = Resize(buffer, max_len)
    /\ phase' = phase
    /\ pc' = pc
    /\ exec_result' = exec_result

\* bulk_in(name, max_len) where read_bulk fails
BulkInFails(name, max_len) ==
    /\ ops' = Append(ops, TransportOp("read", name, max_len, <<>>, "err"))
    /\ buffer' = Resize(buffer, max_len)
    /\ phase' = phase
    /\ Abort(UsbFailure("read_bulk"))

\* bulk_in(name, max_len) where read_bulk delivers `data`
BulkInDelivers(name, max_len, data) ==
    /\ ops' = Append(ops, TransportOp("read", name, max_len, data, "ok"))
    /\ buffer' = ReadInto(Resize(buffer, max_len), data)
    /\ phase' = phase + 1

\* self.invoke_id + 1 in u16: traps when the build checks overflow
InvokeIdOverflows == invoke_id = 65535 /\ overflow_checks
NextInvokeId == (invoke_id + 1) % 65536

\* the overflow panic of `self.invoke_id + 1` in the request built at `here`
PanicOnOverflow(here) ==
    /\ pc = here
    /\ InvokeIdOverflows
    /\ Panic
    /\ UNCHANGED <<phase, invoke_id, buffer, exec_result, ops,
                   overflow_checks, full_reads, session_locals, outside_session>>

\* bulk_in(name, BUFFER_SIZE)? followed by update_invoke_id(6)?, as in
\* phases 7, 9 and 11
RecvAnswer(here, next, name, deliveries) ==
    /\ pc = here
    /\ \E r \in ReadOutcomes(deliveries) :
          IF r.res = "err"
          THEN BulkInFails(name, BUFFER_SIZE) /\ UNCHANGED invoke_id
          ELSE /\ BulkInDelivers(name, BUFFER_SIZE, r.data)
               /\ LET upd == UpdateInvokeId(buffer', 6)
                  IN  IF upd.ok
                      THEN /\ invoke_id' = upd.id
                           /\ pc' = next
                           /\ UNCHANGED exec_result
                      ELSE /\ invoke_id' = invoke_id
                           /\ Abort(ParseError("Buffer too small for invoke_id"))
    /\ UNCHANGED <<result, claimed, releases, overflow_checks, full_reads, session_locals,
                   outside_session>>

----------------------------------------------------------------------------
(* ProtocolHandler::execute, phase by phase *)

\* Phase 2: bulk_in("pairing request", 64)
RecvPairingRequest ==
    /\ pc = "p2"
    /\ \E r \in ReadOutcomes(PairingsOffered) :
          IF r.res = "err"
          THEN BulkInFails("pairing request", PAIRING_MAX_LEN)
          ELSE /\ BulkInDelivers("pairing request", PAIRING_MAX_LEN, r.data)
               /\ pc' = "p3"
               /\ UNCHANGED exec_result
    /\ UNCHANGED <<invoke_id, result, claimed, releases, overflow_checks, full_reads,
                   session_locals, outside_session>>

\* Phase 3
SendPairingConfirmation ==
    BulkOut("p3", "p4", "pairing confirmation", PairingConfirmationFrame)

\* Phase 4: bulk_in, update_invoke_id(6), parse_pm_store_handle
RecvConfigInfo ==
    /\ pc = "p4"
    /\ \E r \in ReadOutcomes(ConfigsOffered) :
          IF r.res = "err"
          THEN /\ BulkInFails("config info", BUFFER_SIZE)
               /\ UNCHANGED <<invoke_id, pm_store_handle>>
          ELSE /\ BulkInDelivers("config info", BUFFER_SIZE, r.data)
               /\ LET bytes_read == Len(r.data)
                      upd    == UpdateInvokeId(buffer', 6)
                      parsed == ParsePmStoreHandle(buffer', bytes_read)
                  IN  IF ~upd.ok
                      THEN /\ Abort(ParseError("Buffer too small for invoke_id"))
                           /\ UNCHANGED <<invoke_id, pm_store_handle>>
                      ELSE /\ invoke_id' = upd.id
                           /\ IF parsed.ok
                              THEN /\ pm_store_handle' = parsed.handle
                                   /\ pc' = "p5"
                                   /\ UNCHANGED exec_result
                              ELSE /\ Abort(ParseError(parsed.msg))
                                   /\ UNCHANGED pm_store_handle
    /\ UNCHANGED <<samples, sample_id, ack, nsegs, segs, result, claimed,
                   releases, overflow_checks, full_reads, outside_session>>

\* Phase 5
SendConfigConfirmation ==
    BulkOut("p5", "p6", "config confirmation", ConfigConfirmationFrame(invoke_id))

\* (mutant) the segment-info action is written without waiting for the
\* MDS answer
RequestMdsAttributes_pipelined ==
    /\ ~InvokeIdOverflows
    /\ BulkOut("p6", "p8", "MDS attribute request",
               MdsAttributesFrame(NextInvokeId))

\* Phase 6
RequestMdsAttributes ==
    \/ PanicOnOverflow("p6")
    \/ /\ ~InvokeIdOverflows
       /\ BulkOut("p6", "p7", "MDS attribute request",
                  MdsAttributesFrame(NextInvokeId))

\* Phase 7
RecvMdsResponse ==
    RecvAnswer("p7", "p8", "MDS attribute answer", AnswerResponses(1801))

\* (mutant) the answer to the action is not read: phase 9 is skipped
SendSegmentInfoRequest_pipelined ==
    /\ ~InvokeIdOverflows
    /\ BulkOut("p8", "p10", "action request",
               SegmentInfoFrame(NextInvokeId, pm_store_handle))

\* Phase 8
SendSegmentInfoRequest ==
    \/ PanicOnOverflow("p8")
    \/ /\ ~InvokeIdOverflows
       /\ BulkOut("p8", "p9", "action request",
                  SegmentInfoFrame(NextInvokeId, pm_store_handle))

\* Phase 9
RecvActionResponse ==
    RecvAnswer("p9", "p10", "action request response", AnswerResponses(2314))

\* Phase 10
RequestDataSegments ==
    \/ PanicOnOverflow("p10")
    \/ /\ ~InvokeIdOverflows
       /\ BulkOut("p10", "p11", "request segments",
                  DataSegmentsFrame(NextInvokeId, pm_store_handle))

\* Phase 11; read_data_segments then starts with no samples and sample_id 0
RecvSegmentHeaders ==
    RecvAnswer("p11", "seg", "segment headers", AnswerResponses(2827))

\* (mutant) u0, u1 and u2 are not read again: those of the previous
\* segment are kept
SegmentAckData_stale(b) ==
    [status |-> BufByte(b, 32), u0 |-> ack.u0, u1 |-> ack.u1, u2 |-> ack.u2]

\* read_data_segments, lines 366-382: the status byte and u0, u1, u2 of the
\* segment in the buffer
SegmentAckData(b) ==
    [status |-> BufByte(b, 32),
     u0 |-> from_be_bytes32(BufByte(b, 22), BufByte(b, 23),
                            BufByte(b, 24), BufByte(b, 25)),
     u1 |-> from_be_bytes32(BufByte(b, 26), BufByte(b, 27),
                            BufByte(b, 28), BufByte(b, 29)),
     u2 |-> BufU16(b, 30)]

\* Phase 12, one turn of the loop of read_data_segments up to the ACK:
\* bulk_in, the length test, update_invoke_id, u0/u1/u2 and
\* parse_segment_samples.  The agent sends a segment that ends the stream
\* once MaxSegments segments have been read.
ReadDataSegment ==
    /\ pc = "seg"
    /\ \/ /\ BulkInFails("data segment", BUFFER_SIZE)
          /\ UNCHANGED <<invoke_id, result, claimed, releases, session_locals>>
       \/ \E d \in SegmentsOffered, gap \in -1..2 :
          /\ nsegs + 1 >= MaxSegments => EndsStream(d)
          /\ BulkInDelivers("data segment", BUFFER_SIZE, SegmentBytes(d))
          /\ nsegs' = nsegs + 1
          /\ segs' = Append(segs, d)
          /\ LET b == buffer'
                 bytes_read == d.len
                 upd == UpdateInvokeId(b, 6)
                 parsed == ParseSegmentSamples(b, sample_id, bytes_read, gap)
             IN  IF SegmentTooSmall(bytes_read)
                 THEN /\ pc' = "p13w"
                      /\ UNCHANGED <<invoke_id, samples, sample_id, ack,
                                     exec_result, result, claimed, releases>>
                 ELSE IF ~upd.ok
                 THEN /\ Abort(ParseError("Buffer too small for invoke_id"))
                      /\ UNCHANGED <<invoke_id, samples, sample_id, ack,
                                     result, claimed, releases>>
                 ELSE /\ invoke_id' = upd.id
                      /\ ack' = SegmentAckData(b)
                      /\ CASE parsed.outcome = "Ok" ->
                                /\ samples' = samples \o parsed.samples
                                /\ sample_id' = parsed.sample_id
                                /\ pc' = "ack"
                                /\ UNCHANGED <<exec_result, result, claimed, releases>>
                           [] parsed.outcome = "Err" ->
                                /\ Abort(DateError)
                                /\ UNCHANGED <<samples, sample_id, result,
                                               claimed, releases>>
                           [] parsed.outcome = "Panic" ->
                                /\ Panic
                                /\ UNCHANGED <<samples, sample_id, exec_result>>
          /\ UNCHANGED pm_store_handle
    /\ UNCHANGED <<overflow_checks, full_reads, outside_session>>

\* (mutant) only the last segment is acknowledged
SendSegmentAck_lastOnly ==
    IF IsLastSegment(ack.status)
    THEN BulkOut("ack", "p13w", "segment ACK",
                 SegmentAckFrame(invoke_id, pm_store_handle, ack.u0, ack.u1, ack.u2))
    ELSE /\ pc = "ack"
         /\ pc' = "seg"
         /\ UNCHANGED <<ops, phase, exec_result, invoke_id, buffer, result,
                        claimed, releases, overflow_checks, full_reads,
                        session_locals, outside_session>>

\* Phase 12, the rest of the turn: send_segment_ack and the last-segment test
SendSegmentAck ==
    BulkOut("ack", IF IsLastSegment(ack.status) THEN "p13w" ELSE "seg", "segment ACK",
            SegmentAckFrame(invoke_id, pm_store_handle, ack.u0, ack.u1, ack.u2))

\* Phase 13, disconnect: bulk_out of the release request
DisconnectSend ==
    BulkOut("p13w", "p13r", "release request", ReleaseRequestFrame)

\* Phase 13, disconnect: bulk_in of the release confirmation; execute
\* then returns Ok(samples)
DisconnectRecv ==
    /\ pc = "p13r"
    /\ \E r \in ReadOutcomes(AnswerResponses(3341)) :
          IF r.res = "err"
          THEN BulkInFails("release confirmation", BUFFER_SIZE)
          ELSE /\ BulkInDelivers("release confirmation", BUFFER_SIZE, r.data)
               /\ exec_result' = Ok(samples)
               /\ pc' = "release"
    /\ UNCHANGED <<invoke_id, result, claimed, releases, overflow_checks, full_reads,
                   session_locals, outside_session>>

----------------------------------------------------------------------------
(* download_samples, after execute *)

\* (mutant) the error of release_interface is ignored: the value of
\* execute is returned either way
ReleaseInterface_ignoresFailure ==
    /\ pc = "release"
    /\ \E ok \in BOOLEAN :
          /\ releases' = IF ok THEN releases + 1
                         ELSE releases + 1 + (IF claimed THEN 1 ELSE 0)
          /\ result' = exec_result
    /\ claimed' = FALSE
    /\ pc' = "done"
    /\ UNCHANGED <<phase, invoke_id, buffer, exec_result, ops,
                   overflow_checks, full_reads, session_locals, outside_session>>

\* lines 100-103: protocol.handle.release_interface(0)?; result.  When the
\* release fails the interface stays recorded as claimed and the drop of
\* `protocol` on the early return releases it once more.
ReleaseInterface ==
    /\ pc = "release"
    /\ \E ok \in BOOLEAN :
          IF ok
          THEN /\ releases' = releases + 1
               /\ result' = exec_result
          ELSE /\ releases' = releases + 1 + (IF claimed THEN 1 ELSE 0)
               /\ result' = UsbFailure("release_interface")
    /\ claimed' = FALSE
    /\ pc' = "done"
    /\ UNCHANGED <<phase, invoke_id, buffer, exec_result, ops,
                   overflow_checks, full_reads, session_locals, outside_session>>

Next ==
    \/ OpenDevice
    \/ ClaimInterface
    \/ SetAlternateSetting
    \/ ControlTransferIn
    \/ RecvPairingRequest
    \/ SendPairingConfirmation
    \/ RecvConfigInfo
    \/ SendConfigConfirmation
    \/ RequestMdsAttributes
    \/ RecvMdsResponse
    \/ SendSegmentInfoRequest
    \/ RecvActionResponse
    \/ RequestDataSegments
    \/ RecvSegmentHeaders
    \/ ReadDataSegment
    \/ SendSegmentAck
    \/ DisconnectSend
    \/ DisconnectRecv
    \/ ReleaseInterface

Spec == Init /\ [][Next]_vars

\* every transport call (and every other call of the download) returns:
\* a step that can be taken is taken in the end.  The agent ends the
\* segment stream at the latest with segment MaxSegments.
LiveSpec == Init /\ [][Next]_vars /\ WF_vars(Next)

----------------------------------------------------------------------------
(* Discovery: find_devices and is_valid_accuchek (device.rs)               *)

\* one endpoint descriptor
Endpoint(address, transfer_type, max_packet_size) ==
    [address |-> address, transfer_type |-> transfer_type,
     max_packet_size |-> max_packet_size]

\* rusb's EndpointDescriptor::direction: bit 7 of the endpoint address
EndpointDirection(ep) == IF (ep.address \div 128) % 2 = 1 THEN "In" ELSE "Out"

\* a device on the bus: its ids, which descriptor read fails ("none",
\* "device" or "config"), its number of configurations, and
\* configuration 0 as a sequence of interfaces, each a sequence of alternate
\* settings, each a sequence of endpoints
UsbDevice(vendor_id, product_id, unreadable, num_configurations, interfaces) ==
    [vendor_id |-> vendor_id, product_id |-> product_id,
     unreadable |-> unreadable, num_configurations |-> num_configurations,
     interfaces |-> interfaces]

\* config.devices: the catalog of supported meters
Catalog ==
    << [vendor_id |-> 5946, product_id |-> 8661, name |-> "Accu-Chek Guide"],
       [vendor_id |-> 5946, product_id |-> 8662, name |-> "Accu-Chek Instant"] >>

Bulk64(address) == Endpoint(address, "Bulk", 64)
OneInterface(endpoints) == << <<endpoints>> >>

\* the devices that may be attached
DeviceChoices ==
    { \* a meter: endpoints 0x01 (OUT) and 0x81 (IN), bulk, 64 bytes
      UsbDevice(5946, 8661, "none", 1,
                OneInterface(<<Bulk64(1), Bulk64(129)>>)),
      \* the same shape, IN endpoint listed first, second catalog entry
      UsbDevice(5946, 8662, "none", 1,
                OneInterface(<<Bulk64(129), Bulk64(1)>>)),
      \* the same shape with endpoints 0x02 (OUT) and 0x82 (IN)
      UsbDevice(5946, 8661, "none", 1,
                OneInterface(<<Bulk64(2), Bulk64(130)>>)),
      \* two configurations
      UsbDevice(5946, 8661, "none", 2,
                OneInterface(<<Bulk64(1), Bulk64(129)>>)),
      \* two interfaces
      UsbDevice(5946, 8661, "none", 1,
                << <<<<Bulk64(1), Bulk64(129)>>>>,
                   <<<<Bulk64(2), Bulk64(130)>>>> >>),
      \* two alternate settings
      UsbDevice(5946, 8661, "none", 1,
                << <<<<Bulk64(1), Bulk64(129)>>,
                     <<Bulk64(1), Bulk64(129)>>>> >>),
      \* three endpoints: bulk OUT, bulk IN and an interrupt IN
      UsbDevice(5946, 8661, "none", 1,
                OneInterface(<<Bulk64(1), Bulk64(129),
                               Endpoint(130, "Interrupt", 8)>>)),
      \* one endpoint
      UsbDevice(5946, 8661, "none", 1, OneInterface(<<Bulk64(129)>>)),
      \* two endpoints, only one of them bulk
      UsbDevice(5946, 8661, "none", 1,
                OneInterface(<<Endpoint(1, "Interrupt", 64), Bulk64(129)>>)),
      \* two bulk endpoints, only one of them with 64-byte packets
      UsbDevice(5946, 8661, "none", 1,
                OneInterface(<<Bulk64(1), Endpoint(129, "Bulk", 512)>>)),
      \* two bulk endpoints of 64 bytes, both IN
      UsbDevice(5946, 8661, "none", 1,
                OneInterface(<<Bulk64(129), Bulk64(130)>>)),
      \* a meter whose configuration descriptor cannot be read
      UsbDevice(5946, 8661, "config", 1,
                OneInterface(<<Bulk64(1), Bulk64(129)>>)),
      \* a device whose device descriptor cannot be read
      UsbDevice(5946, 8661, "device", 1,
                OneInterface(<<Bulk64(1), Bulk64(129)>>)),
      \* a device of the meter's shape that is not in the catalog
      UsbDevice(1133, 49271, "none", 1,
                OneInterface(<<Bulk64(1), Bulk64(129)>>)),
      \* a device not in the catalog whose configuration cannot be read
      UsbDevice(1133, 49271, "config", 1, <<>>) }

\* the buses of at most MaxDevices devices
Buses ==
    UNION { [1..n -> DeviceChoices] : n \in 0..MaxDevices }

\* the loop over the endpoints of is_valid_accuchek, from endpoint k
RECURSIVE CheckEndpoints(_, _, _, _)
CheckEndpoints(endpoints, k, has_bulk_in, has_bulk_out) ==
    IF k > Len(endpoints) THEN has_bulk_in /\ has_bulk_out
    ELSE LET endpoint == endpoints[k]
         IN  IF endpoint.max_packet_size = 64 /\ endpoint.transfer_type = "Bulk"
             THEN IF EndpointDirection(endpoint) = "In"
                  THEN CheckEndpoints(endpoints, k + 1, TRUE, has_bulk_out)
                  ELSE CheckEndpoints(endpoints, k + 1, has_bulk_in, TRUE)
             ELSE CheckEndpoints(endpoints, k + 1, has_bulk_in, has_bulk_out)

\* (mutant) the number of endpoints is not tested
is_valid_accuchek_anyCount(device) ==
    IF device.unreadable = "device" THEN "Err"
    ELSE IF device.num_configurations # 1 THEN "false"
    ELSE IF device.unreadable = "config" THEN "Err"
    ELSE IF Len(device.interfaces) # 1 THEN "false"
    ELSE IF Len(device.interfaces[1]) # 1 THEN "false"
    ELSE IF CheckEndpoints(device.interfaces[1][1], 1, FALSE, FALSE)
         THEN "true" ELSE "false"

\* is_valid_accuchek: Ok(true), Ok(false) or Err
is_valid_accuchek(device) ==
    IF device.unreadable = "device" THEN "Err"
    ELSE IF device.num_configurations # 1 THEN "false"
    ELSE IF device.unreadable = "config" THEN "Err"
    ELSE IF Len(device.interfaces) # 1 THEN "false"
    ELSE IF Len(device.interfaces[1]) # 1 THEN "false"
    ELSE IF Len(device.interfaces[1][1]) # 2 THEN "false"
    ELSE IF CheckEndpoints(device.interfaces[1][1], 1, FALSE, FALSE)
         THEN "true" ELSE "false"

\* config.devices.iter().find(..): the index of the first catalog entry
\* with the device's ids, 0 when there is none
RECURSIVE FindSupported(_, _)
FindSupported(device, k) ==
    IF k > Len(Catalog) THEN 0
    ELSE IF Catalog[k].vendor_id = device.vendor_id
            /\ Catalog[k].product_id = device.product_id
         THEN k
         ELSE FindSupported(device, k + 1)

\* AccuChekDevice; a device's address is its place on the bus
AccuChekDevice(vendor_id, product_id, name, address) ==
    [vendor_id |-> vendor_id, product_id |-> product_id, name |-> name,
     bus |-> 1, address |-> address]

ScanOk(devices) == [kind |-> "Ok", msg |-> "", devices |-> devices]
ScanErr(msg) == [kind |-> "Err", msg |-> msg, devices |-> <<>>]

\* the session is not running while the bus is scanned
DiscoveryInit ==
    /\ SessionInit
    /\ full_reads = FALSE
    /\ bus \in Buses
    /\ scan_pc = "idle"
    /\ scan_index = 0
    /\ found_devices = <<>>
    /\ scan_result = [kind |-> "None", msg |-> "", devices |-> <<>>]
    /\ NoDecode
    /\ parked = NotStarted
    /\ current = 1

\* lines 47-51: rusb::devices()?
ListDevices ==
    /\ scan_pc = "idle"
    /\ \E ok \in BOOLEAN :
          IF ok
          THEN scan_pc' = "loop" /\ scan_index' = 1 /\ UNCHANGED scan_result
          ELSE /\ scan_pc' = "done"
               /\ scan_result' = ScanErr("devices")
               /\ UNCHANGED scan_index
    /\ UNCHANGED <<bus, found_devices, session_vars, other_session,
                   decode_vars>>

\* lines 53-84: one turn of the loop over the devices
ScanDevice ==
    /\ scan_pc = "loop"
    /\ scan_index <= Len(bus)
    /\ LET device    == bus[scan_index]
           supported == FindSupported(device, 1)
           valid     == is_valid_accuchek(device)
       IN  IF device.unreadable = "device"
           THEN /\ scan_pc' = "done"
                /\ scan_result' = ScanErr("device_descriptor")
                /\ UNCHANGED <<scan_index, found_devices>>
           ELSE IF supported = 0
           THEN /\ scan_index' = scan_index + 1
                /\ UNCHANGED <<scan_pc, scan_result, found_devices>>
           ELSE IF valid = "Err"
           THEN /\ scan_pc' = "done"
                /\ scan_result' = ScanErr("is_valid_accuchek")
                /\ UNCHANGED <<scan_index, found_devices>>
           ELSE /\ scan_index' = scan_index + 1
                /\ found_devices' =
                      IF valid = "true"
                      THEN Append(found_devices,
                                  AccuChekDevice(device.vendor_id, device.product_id,
                                                 Catalog[supported].name, scan_index))
                      ELSE found_devices
                /\ UNCHANGED <<scan_pc, scan_result>>
    /\ UNCHANGED <<bus, session_vars, other_session, decode_vars>>

\* line 86: Ok(found_devices)
ReturnFound ==
    /\ scan_pc = "loop"
    /\ scan_index > Len(bus)
    /\ scan_pc' = "done"
    /\ scan_result' = ScanOk(found_devices)
    /\ UNCHANGED <<bus, scan_index, found_devices, session_vars,
                   other_session, decode_vars>>

DiscoveryNext ==
    \/ ListDevices
    \/ ScanDevice
    \/ ReturnFound

DiscoverySpec == DiscoveryInit /\ [][DiscoveryNext]_vars

----------------------------------------------------------------------------
(* A download from a meter that fills the buffer *)

FullReadInit ==
    /\ SessionInit
    /\ full_reads = TRUE
    /\ NoScan
    /\ NoDecode
    /\ parked = NotStarted
    /\ current = 1

FullReadSpec == FullReadInit /\ [][Next]_vars

----------------------------------------------------------------------------
(* bcd_decode on every byte *)

DecodeInit ==
    /\ SessionInit
    /\ full_reads = FALSE
    /\ NoScan
    /\ parked = NotStarted
    /\ current = 1
    /\ decode_arg \in 0..255
    /\ decode_out = -1

\* bcd_decode(decode_arg)
Decode ==
    /\ decode_out = -1
    /\ decode_out' = bcd_decode(decode_arg)
    /\ UNCHANGED <<decode_arg, session_vars, bus, scan_pc, scan_index,
                   found_devices, scan_result, other_session>>

DecodeNext == Decode

DecodeSpec == DecodeInit /\ [][DecodeNext]_vars

----------------------------------------------------------------------------
(* Two downloads on two devices, each on a thread of its own *)

\* (mutant) invoke_id is a static shared by the two downloads
Switch_sharedInvokeId ==
    /\ parked' = SessionRecord(pc, phase, invoke_id, buffer, pm_store_handle,
                               samples, sample_id, ack, exec_result, result,
                               claimed, releases, ops, nsegs, segs)
    /\ pc' = parked.pc
    /\ phase' = parked.phase
    /\ invoke_id' = invoke_id
    /\ buffer' = parked.buffer
    /\ pm_store_handle' = parked.pm_store_handle
    /\ samples' = parked.samples
    /\ sample_id' = parked.sample_id
    /\ ack' = parked.ack
    /\ exec_result' = parked.exec_result
    /\ result' = parked.result
    /\ claimed' = parked.claimed
    /\ releases' = parked.releases
    /\ ops' = parked.ops
    /\ nsegs' = parked.nsegs
    /\ segs' = parked.segs
    /\ current' = 3 - current
    /\ UNCHANGED <<overflow_checks, full_reads, bus, scan_pc, scan_index, found_devices,
                   scan_result, decode_vars>>

\* the scheduler lets the other thread run: the running download is set
\* aside with everything it owns and the other one is taken up.  Nothing
\* of a download lives outside its SessionRecord.
Switch ==
    /\ parked' = SessionRecord(pc, phase, invoke_id, buffer, pm_store_handle,
                               samples, sample_id, ack, exec_result, result,
                               claimed, releases, ops, nsegs, segs)
    /\ pc' = parked.pc
    /\ phase' = parked.phase
    /\ invoke_id' = parked.invoke_id
    /\ buffer' = parked.buffer
    /\ pm_store_handle' = parked.pm_store_handle
    /\ samples' = parked.samples
    /\ sample_id' = parked.sample_id
    /\ ack' = parked.ack
    /\ exec_result' = parked.exec_result
    /\ result' = parked.result
    /\ claimed' = parked.claimed
    /\ releases' = parked.releases
    /\ ops' = parked.ops
    /\ nsegs' = parked.nsegs
    /\ segs' = parked.segs
    /\ current' = 3 - current
    /\ UNCHANGED <<overflow_checks, full_reads, bus, scan_pc, scan_index, found_devices,
                   scan_result, decode_vars>>

\* The agents of the two-download specification.  Up to the segment
\* stream they answer as expected: no transport call fails, the association
\* request arrives, the configuration is the one with invoke id 0xFFFF and
\* handle 16 or the one with invoke id 0x0106 and handle 515, and the
\* answers of phases 7, 9 and 11 are complete.  From phase 12 on any
\* transport call may fail; each agent sends at most MaxSegmentsEach data
\* segments out of four kinds (three entries with more to follow, one
\* entry and last, an entry with an invalid date, fewer than 33 bytes).
TwoSessionsAgent ==
    /\ \A i \in 1..Len(ops) :
          /\ i <= 11 => ops[i].res = "ok"
          /\ i = 2 => ops[i].data # <<>>
          /\ i = 4 => \E c \in ConfigChoices :
                         c.iid \in {65535, 262} /\ ops[i].data = ConfigBytes(c)
          /\ i \in {7, 9, 11} => Len(ops[i].data) = 8
    /\ Len(segs) <= MaxSegmentsEach
    /\ \A k \in 1..Len(segs) : segs[k].iid \in {769, 771, 774, 775}
    /\ Len(segs) = MaxSegmentsEach => EndsStream(segs[Len(segs)])
    /\ Len(ops) = 0 => result.kind = "None"

\* one of the two downloads takes a step, or the scheduler switches
TwoSessionsNext ==
    \/ OpenDevice /\ TwoSessionsAgent'
    \/ ClaimInterface /\ TwoSessionsAgent'
    \/ SetAlternateSetting /\ TwoSessionsAgent'
    \/ ControlTransferIn /\ TwoSessionsAgent'
    \/ RecvPairingRequest /\ TwoSessionsAgent'
    \/ SendPairingConfirmation /\ TwoSessionsAgent'
    \/ RecvConfigInfo /\ TwoSessionsAgent'
    \/ SendConfigConfirmation /\ TwoSessionsAgent'
    \/ RequestMdsAttributes /\ TwoSessionsAgent'
    \/ RecvMdsResponse /\ TwoSessionsAgent'
    \/ SendSegmentInfoRequest /\ TwoSessionsAgent'
    \/ RecvActionResponse /\ TwoSessionsAgent'
    \/ RequestDataSegments /\ TwoSessionsAgent'
    \/ RecvSegmentHeaders /\ TwoSessionsAgent'
    \/ ReadDataSegment /\ TwoSessionsAgent'
    \/ SendSegmentAck /\ TwoSessionsAgent'
    \/ DisconnectSend /\ TwoSessionsAgent'
    \/ DisconnectRecv /\ TwoSessionsAgent'
    \/ ReleaseInterface /\ TwoSessionsAgent'
    \/ Switch

TwoSessions == Init /\ [][TwoSessionsNext]_vars

----------------------------------------------------------------------------
(* Reading the log of transport operations *)

SeqU16(bytes, off) == bytes[off + 1] * 256 + bytes[off + 2]

\* what a transport operation is, judged from the call and the bytes written
Kind(o) ==
    CASE o.op = "control_in" -> "control_in"
      [] o.op = "read" -> IF o.max_len <= PAIRING_MAX_LEN THEN "read64" ELSE "read"
      [] o.op = "write" ->
           LET type == SeqU16(o.data, 0)
           IN  CASE type = APDU_TYPE_ASSOCIATION_RESPONSE -> "association response"
                 [] type = APDU_TYPE_ASSOCIATION_RELEASE_REQUEST -> "release request"
                 [] type = APDU_TYPE_PRESENTATION_APDU ->
                      LET choice == SeqU16(o.data, 8)
                      IN  CASE choice = DATA_APDU_INVOKE_GET -> "MDS GET"
                            [] choice = DATA_APDU_INVOKE_CONFIRMED_ACTION ->
                                 (CASE SeqU16(o.data, 14) = ACTION_TYPE_MDC_ACT_SEG_GET_INFO
                                         -> "segment-info action"
                                    [] SeqU16(o.data, 14) = ACTION_TYPE_MDC_ACT_SEG_TRIG_XFER
                                         -> "segment-transfer trigger"
                                    [] OTHER -> "unknown")
                            [] choice = DATA_APDU_RESPONSE_CONFIRMED_EVENT_REPORT ->
                                 (CASE SeqU16(o.data, 18) = EVENT_TYPE_MDC_NOTI_CONFIG
                                         -> "config-accepted report"
                                    [] SeqU16(o.data, 18) = EVENT_TYPE_MDC_NOTI_SEGMENT_DATA
                                         -> "ACK"
                                    [] OTHER -> "unknown")
                            [] OTHER -> "unknown"
                 [] OTHER -> "unknown"

Kinds(os) == [i \in 1..Len(os) |-> Kind(os[i])]

IsPrefix(s, t) == Len(s) <= Len(t) /\ \A i \in 1..Len(s) : s[i] = t[i]

\* phases 1 to 11
FixedOrder ==
    <<"control_in", "read64", "association response", "read",
      "config-accepted report", "MDS GET", "read", "segment-info action",
      "read", "segment-transfer trigger", "read">>

\* phases 12 and 13: k pairs (segment read, ACK), optionally one short
\* segment that is not acknowledged, then release request and a read
TailInOrder(t) ==
    \E k \in 0..(Len(t) \div 2) :
       /\ \A j \in 1..k :
             /\ Kind(t[2 * j - 1]) = "read"
             /\ Len(t[2 * j - 1].data) >= MIN_SEGMENT_LEN
             /\ Kind(t[2 * j]) = "ACK"
       /\ LET r == SubSeq(t, 2 * k + 1, Len(t))
          IN  \/ IsPrefix(Kinds(r), <<"release request", "read">>)
              \/ /\ IsPrefix(Kinds(r), <<"read", "release request", "read">>)
                 /\ Len(r) >= 2 =>
                       r[1].res = "ok" /\ Len(r[1].data) < MIN_SEGMENT_LEN

\* C1: the transport operations of a session, in the order performed, are
\* always a prefix of: control_in, read (<= 64), write association response,
\* read, write config-accepted report, write MDS GET, read, write
\* segment-info action, read, write segment-transfer trigger, read, then
\* pairs (read data segment, write ACK), optionally one short segment read
\* without ACK, then write release request, read.
C1_PhaseOrder ==
    /\ IsPrefix(Kinds(SubSeq(ops, 1, Min(Len(ops), Len(FixedOrder)))), FixedOrder)
    /\ Len(ops) > Len(FixedOrder) =>
          TailInOrder(SubSeq(ops, Len(FixedOrder) + 1, Len(ops)))

\* a complete session with two acknowledged segments and the release exchange
C1_Witness ==
    /\ pc = "done"
    /\ Len(ops) = Len(FixedOrder) + 6
    /\ Kinds(SubSeq(ops, Len(FixedOrder) + 1, Len(ops)))
          = <<"read", "ACK", "read", "ACK", "release request", "read">>
    /\ result.kind = "Ok"

\* C2: from the moment claim_interface(0) has succeeded the interface stays
\* recorded as claimed until download_samples is left, and every step that
\* leaves download_samples (normal return, failure of
\* set_alternate_setting, failure of a phase, panic) attempts
\* release_interface(0).
C2_ReleaseOnEveryExit ==
    [][ claimed => /\ pc' # "done" => (claimed' /\ releases' = releases)
                   /\ pc' = "done" => releases' > releases ]_vars

\* the download ended by a panic inside sample parsing, after the claim,
\* and the interface release was attempted
C2_Witness ==
    /\ pc = "done"
    /\ result = Panicked
    /\ Len(segs) >= 1
    /\ releases = 1

\* some transport operation of the session did not complete
SomeOpFailed == \E i \in 1..Len(ops) : ops[i].res # "ok"

\* C3: when a step fails after samples have been parsed (a segment read, an
\* ACK write that fails or is short, the release request or the read of
\* its confirmation), download_samples returns an error and no samples.
C3_PartialDiscarded ==
    (pc = "done" /\ Len(samples) > 0 /\ SomeOpFailed)
        => (result.kind = "Err" /\ result.samples = <<>>)

\* samples were parsed, then the short write of an ACK ended the download
C3_Witness ==
    /\ pc = "done"
    /\ Len(samples) >= 2
    /\ Kind(ops[Len(ops)]) = "ACK"
    /\ ops[Len(ops)].res = "short"
    /\ result.kind = "Err"

\* the rusb call behind a transport operation
CallOf(o) ==
    CASE o.op = "control_in" -> "read_control"
      [] o.op = "read" -> "read_bulk"
      [] o.op = "write" -> "write_bulk"

\* C4: a transport operation that returned an error is the last operation
\* of its session (no retry, no further control_in, read or write), and
\* execute returns that error.
C4_TransportErrorAborts ==
    \A i \in 1..Len(ops) :
       ops[i].res = "err" =>
          /\ i = Len(ops)
          /\ pc \in {"release", "done"}
          /\ exec_result = UsbFailure(CallOf(ops[i]))

\* the read of the second data segment failed and the session is over
C4_Witness ==
    /\ pc = "done"
    /\ Len(ops) = Len(FixedOrder) + 3
    /\ ops[Len(ops)].op = "read"
    /\ ops[Len(ops)].res = "err"
    /\ exec_result = UsbFailure("read_bulk")

\* the receives of phases 4, 7, 9 and 11 are operations 4, 7, 9 and 11
\* C5: a receive in phase 4, 7, 9 or 11 that delivers fewer than 8 bytes
\* (or, in phase 4, fewer than 28) ends the session with a Parse error.
C5_UnderrunIsParseError ==
    \A i \in {4, 7, 9, 11} :
       (i <= Len(ops) /\ ops[i].res = "ok"
           /\ (Len(ops[i].data) < 8 \/ (i = 4 /\ Len(ops[i].data) < 28)))
       => /\ i = Len(ops)
          /\ exec_result.kind = "Err"
          /\ exec_result.err = "Parse"

----------------------------------------------------------------------------
(* What the agent's segments and configuration hold, read from their       *)
(* description rather than from the bytes                                   *)

\* entries of segment d that lie wholly within the delivered bytes:
\* entry i (from 0) occupies the bytes up to 30 + 12 * i + 18
WalkedCount(d) ==
    IF d.len < 48 THEN 0 ELSE Min(d.nb, (d.len - 48) \div 12 + 1)

RECURSIVE ValuesWithStatus0(_, _)
ValuesWithStatus0(entries, n) ==
    IF n = 0 THEN <<>>
    ELSE ValuesWithStatus0(entries, n - 1)
         \o (IF entries[n].status = 0 THEN <<entries[n].value>> ELSE <<>>)

\* the readings of the walked entries of d whose status word is 0
ExpectedValues(d) ==
    IF d.len < MIN_SEGMENT_LEN THEN <<>>
    ELSE ValuesWithStatus0(d.entries, WalkedCount(d))

RECURSIVE ExpectedAll(_)
ExpectedAll(ds) ==
    IF ds = <<>> THEN <<>>
    ELSE ExpectedAll(SubSeq(ds, 1, Len(ds) - 1)) \o ExpectedValues(ds[Len(ds)])

Readings(ss) == [i \in 1..Len(ss) |-> ss[i].mg_dl]

\* the indexes of `ops` at which a data segment was delivered
IsSegmentRead(o) == o.op = "read" /\ o.name = "data segment" /\ o.res = "ok"

\* C6: a phase-12 read that delivers fewer than 33 bytes raises no error and
\* ends the loop: nothing but the release request and the read of its
\* confirmation follows (no ACK, no further segment), no sample is taken
\* from it (the samples are those of the earlier segments, none if it was
\* the first), and these are the samples the session and the download
\* return when they return Ok.
C6_ShortSegmentEndsLoop ==
    \A i \in 1..Len(ops) :
       (IsSegmentRead(ops[i]) /\ Len(ops[i].data) < MIN_SEGMENT_LEN) =>
          /\ pc \in {"p13w", "p13r", "release", "done"}
          /\ i + 1 <= Len(ops) => Kind(ops[i + 1]) = "release request"
          /\ i + 2 <= Len(ops) => ops[i + 2].name = "release confirmation"
          /\ Len(ops) <= i + 2
          /\ exec_result.kind = "Err" => ops[Len(ops)].res # "ok" /\ Len(ops) > i
          /\ Readings(samples) = ExpectedAll(SubSeq(segs, 1, Len(segs) - 1))
          /\ Len(segs) = 1 => samples = <<>>
          /\ exec_result.kind = "Ok" => exec_result.samples = samples
          /\ result.kind = "Ok" => result.samples = samples

\* a 20-byte segment after a segment with two valid entries: the download
\* returned the two samples, and the release exchange followed the short read
C6_Witness ==
    /\ pc = "done"
    /\ result.kind = "Ok"
    /\ Len(result.samples) = 2
    /\ Len(segs) = 2
    /\ segs[2].len = 20
    /\ Kinds(SubSeq(ops, Len(ops) - 2, Len(ops))) = <<"read", "release request", "read">>

\* the configuration `c` delivers the 8-byte header of its object k
RECURSIVE ObjectOffset(_, _)
ObjectOffset(c, k) ==
    IF k = 1 THEN 28 ELSE ObjectOffset(c, k - 1) + 8 + c.objects[k - 1].size

HasPmStore(c) ==
    \E k \in 1..Len(c.objects) :
       /\ k <= c.count
       /\ ObjectOffset(c, k) + 8 <= c.len
       /\ c.objects[k].class = MDC_MOC_VMO_PMSTORE

\* C7: when the phase-4 configuration report holds no object of class 61,
\* execute fails with the Parse error "PM Store not found in config", the
\* phase-4 read is the session's last transport operation (nothing is
\* written after the association response), download_samples returns an
\* error and no samples, and release_interface(0) has been called.
C7_MissingPmStore ==
    \A c \in ConfigChoices :
       (/\ Len(ops) >= 4
        /\ ops[4].res = "ok"
        /\ ops[4].data = ConfigBytes(c)
        /\ c.len >= 28
        /\ ~HasPmStore(c)) =>
          /\ exec_result = ParseError("PM Store not found in config")
          /\ Len(ops) = 4
          /\ Kind(ops[3]) = "association response"
          /\ pc \in {"release", "done"}
          /\ pc = "done" =>
                (result.kind = "Err" /\ result.samples = <<>> /\ releases >= 1)

\* the configuration listing one object of class 99 was received and the
\* download is over
C7_Witness ==
    /\ pc = "done"
    /\ Len(ops) = 4
    /\ ops[4].data = ConfigBytes(Config(263, 1, <<Object(99, 7, 0)>>, 36))
    /\ result = ParseError("PM Store not found in config")
    /\ releases = 1

IdsInOrder(ss) == \A i \in 1..Len(ss) : ss[i].id = i - 1

\* C8: the samples of read_data_segments always carry the ids 0, 1, ..., n-1
\* in list order, the counter being the number of samples emitted so far
\* (it is not restarted by a new segment and not advanced by a filtered
\* entry); so do the samples of a successful download.
C8_SampleIds ==
    /\ IdsInOrder(samples)
    /\ sample_id = Len(samples)
    /\ exec_result.kind = "Ok" => IdsInOrder(exec_result.samples)
    /\ result.kind = "Ok" =>
          /\ IdsInOrder(result.samples)
          /\ Len(result.samples) = Len(ExpectedAll(segs))

\* a successful download of two segments: valid, filtered, valid entries in
\* the first, one valid entry in the second; the last sample has id 2
C8_Witness ==
    /\ pc = "done"
    /\ result.kind = "Ok"
    /\ Len(segs) = 2
    /\ segs[1].nb = 3
    /\ segs[1].entries[2].status # 0
    /\ Len(result.samples) = 3
    /\ result.samples[3].id = 2
    /\ result.samples[3].mg_dl = 300

\* the parse of the latest segment failed (date error) or panicked
ParseFailed ==
    \/ exec_result = DateError
    \/ result = Panicked /\ Len(segs) > 0

\* the segments whose parse returned Ok
ParsedSegments == IF ParseFailed THEN SubSeq(segs, 1, Len(segs) - 1) ELSE segs

AllFiltered(d) == \A i \in 1..Len(d.entries) : d.entries[i].status # 0

\* C9: the samples emitted by the segment parser are, in order, exactly the
\* walked entries whose 16-bit status word is 0 (of every segment it parsed
\* successfully), each with mg_dl equal to the entry's raw 16-bit value; an
\* entry with a non-zero status yields no sample and never an error, and a
\* download whose entries all have a non-zero status returns an empty list.
C9_StatusFilter ==
    /\ Readings(samples) = ExpectedAll(ParsedSegments)
    /\ ParseFailed =>
          LET d == segs[Len(segs)]
          IN  \E i \in 1..WalkedCount(d) : d.entries[i].status = 0
    /\ result.kind = "Ok" => Readings(result.samples) = ExpectedAll(segs)
    /\ (result.kind = "Ok" /\ \A k \in 1..Len(segs) : AllFiltered(segs[k]))
          => result.samples = <<>>

\* a successful download of a segment with two walked entries, both with a
\* non-zero status (one of them 0x0100), returned no sample
C9_Witness ==
    /\ pc = "done"
    /\ result.kind = "Ok"
    /\ result.samples = <<>>
    /\ Len(segs) = 1
    /\ WalkedCount(segs[1]) = 2
    /\ AllFiltered(segs[1])

\* C10: a data segment of at least 33 bytes whose parse succeeds is followed
\* by the write of its own ACK, its samples being appended before; once that
\* write has succeeded, bit 0x40 of byte 32 decides: when set, no further
\* segment is read and the next transport operation is the write of the
\* release request; when clear, the next transport operation is the read
\* of another data segment.
C10_LastSegmentFlag ==
    \A i \in 1..Len(ops) :
       (IsSegmentRead(ops[i]) /\ Len(ops[i].data) >= MIN_SEGMENT_LEN) =>
          LET last == (ops[i].data[33] \div 64) % 2 = 1
          IN  /\ (i = Len(ops) /\ ~ParseFailed) =>
                    (pc = "ack" /\ Readings(samples) = ExpectedAll(segs))
              /\ i + 1 <= Len(ops) =>
                    /\ Kind(ops[i + 1]) = "ACK"
                    /\ SubSeq(ops[i + 1].data, 23, 32) = SubSeq(ops[i].data, 23, 32)
              /\ (i + 1 <= Len(ops) /\ ops[i + 1].res = "ok") =>
                    IF last
                    THEN /\ \A j \in (i + 1)..Len(ops) : ~IsSegmentRead(ops[j])
                         /\ i + 1 = Len(ops) => pc = "p13w"
                         /\ i + 2 <= Len(ops) => Kind(ops[i + 2]) = "release request"
                    ELSE /\ i + 1 = Len(ops) => pc = "seg"
                         /\ i + 2 <= Len(ops) => ops[i + 2].name = "data segment"

\* a segment with status byte 0x80 was acknowledged and another segment
\* read; that one, with bit 0x40 set, was acknowledged and the release
\* request written next
C10_Witness ==
    /\ Len(ops) = Len(FixedOrder) + 5
    /\ Len(segs) = 2
    /\ segs[1].sb = 128
    /\ (segs[2].sb \div 64) % 2 = 1
    /\ Kinds(SubSeq(ops, Len(FixedOrder) + 1, Len(ops)))
          = <<"read", "ACK", "read", "ACK", "release request">>

----------------------------------------------------------------------------
(* Invoke ids on the wire *)

\* byte k (from 0) of the receive buffer after the first n transport
\* operations, read from the log: the byte of the latest read that
\* delivered more than k bytes, 0 when there is none
RECURSIVE ReceivedByte(_, _)
ReceivedByte(n, k) ==
    IF n = 0 THEN 0
    ELSE IF ops[n].op = "read" /\ ops[n].res = "ok" /\ Len(ops[n].data) > k
         THEN ops[n].data[k + 1]
         ELSE ReceivedByte(n - 1, k)

\* bytes [6..8] of the receive buffer after the first n operations
ReceivedInvokeId(n) == ReceivedByte(n, 6) * 256 + ReceivedByte(n, 7)

IsPresentationApdu(o) ==
    o.op = "write" /\ SeqU16(o.data, 0) = APDU_TYPE_PRESENTATION_APDU

\* C11: every Presentation APDU the session writes carries, at its bytes
\* [6..8], an invoke id derived from bytes [6..8] of the receive buffer as
\* the latest receive left it: the config-accepted report and every
\* segment ACK carry that value, the MDS GET and the two confirmed actions
\* carry that value plus 1 (in 16 bits); an ACK directly follows the read
\* of a segment of at least 33 bytes and carries the invoke id found at
\* bytes [6..8] of that very segment.
C11_InvokeIdPropagation ==
    \A i \in 1..Len(ops) :
       IsPresentationApdu(ops[i]) =>
          LET sent     == SeqU16(ops[i].data, 6)
              received == ReceivedInvokeId(i - 1)
          IN  /\ Kind(ops[i]) \in {"config-accepted report", "ACK"}
                    => sent = received
              /\ Kind(ops[i]) \in {"MDS GET", "segment-info action",
                                    "segment-transfer trigger"}
                    => sent = (received + 1) % 65536
              /\ Kind(ops[i]) # "unknown"
              /\ Kind(ops[i]) = "ACK" =>
                    /\ IsSegmentRead(ops[i - 1])
                    /\ Len(ops[i - 1].data) >= MIN_SEGMENT_LEN
                    /\ sent = SeqU16(ops[i - 1].data, 6)

\* two segments carrying different invoke ids were acknowledged, the first
\* ACK with the first segment's id and the second with the second's
C11_Witness ==
    /\ Len(ops) = Len(FixedOrder) + 4
    /\ Len(segs) = 2
    /\ segs[1].iid # segs[2].iid
    /\ Kind(ops[Len(ops)]) = "ACK"
    /\ SeqU16(ops[Len(ops)].data, 6) = segs[2].iid
    /\ SeqU16(ops[Len(ops) - 2].data, 6) = segs[1].iid

----------------------------------------------------------------------------
(* Timestamps *)

RECURSIVE EntriesWithStatus0(_, _)
EntriesWithStatus0(entries, n) ==
    IF n = 0 THEN <<>>
    ELSE EntriesWithStatus0(entries, n - 1)
         \o (IF entries[n].status = 0 THEN <<entries[n]>> ELSE <<>>)

\* the walked entries of the segments ds whose status word is 0, in order
RECURSIVE ExpectedEntries(_)
ExpectedEntries(ds) ==
    IF ds = <<>> THEN <<>>
    ELSE LET d == ds[Len(ds)]
         IN  ExpectedEntries(SubSeq(ds, 1, Len(ds) - 1))
             \o (IF d.len < MIN_SEGMENT_LEN THEN <<>>
                 ELSE EntriesWithStatus0(d.entries, WalkedCount(d)))

\* a BCD byte as text: its two nibbles as two decimal digits; when a
\* nibble exceeds 9, the decimal digits of high * 10 + low
BcdText(byte) ==
    LET high == byte \div 16
        low  == byte % 16
        n    == high * 10 + low
    IN  IF high <= 9 /\ low <= 9 THEN <<Digit(high), Digit(low)>>
        ELSE IF n >= 100
             THEN <<Digit(n \div 100), Digit((n \div 10) % 10), Digit(n % 10)>>
             ELSE <<Digit(n \div 10), Digit(n % 10)>>

\* the text of a BCD sextet, with `sep` between century and year
SextetText(bcd, sep) ==
    BcdText(bcd[1]) \o sep \o BcdText(bcd[2]) \o <<"/">> \o BcdText(bcd[3])
    \o <<"/">> \o BcdText(bcd[4]) \o <<" ">> \o BcdText(bcd[5]) \o <<":">>
    \o BcdText(bcd[6])

StampsAre(ss, es, sep) ==
    /\ Len(ss) = Len(es)
    /\ \A k \in 1..Len(ss) : ss[k].timestamp = SextetText(es[k].bcd, sep)

\* C12 as stated: every emitted sample's timestamp reads "CC YY/MM/DD HH:MM",
\* the six two-digit fields of the entry's BCD sextet with a space between
\* the century pair and the year pair.
C12_TimestampSpaced ==
    /\ StampsAre(samples, ExpectedEntries(ParsedSegments), <<" ">>)
    /\ result.kind = "Ok" =>
          StampsAre(result.samples, ExpectedEntries(segs), <<" ">>)

\* C12 amended: every emitted sample's timestamp reads "CCYY/MM/DD HH:MM",
\* the fields of the entry's BCD sextet in order with nothing between the
\* century and the year; each field shows the two nibbles of its byte as
\* two decimal digits (the decimal digits of high * 10 + low, possibly
\* three, when a nibble exceeds 9).
C12_TimestampFormat ==
    /\ StampsAre(samples, ExpectedEntries(ParsedSegments), <<>>)
    /\ result.kind = "Ok" =>
          StampsAre(result.samples, ExpectedEntries(segs), <<>>)

\* a download returned a sample of BCD 20 24 03 15 09 30 as
\* "2024/03/15 09:30"
C12_Witness ==
    /\ pc = "done"
    /\ result.kind = "Ok"
    /\ Len(result.samples) >= 1
    /\ segs[1].entries[1].bcd = <<32, 36, 3, 21, 9, 48>>
    /\ result.samples[1].timestamp
          = <<"2", "0", "2", "4", "/", "0", "3", "/", "1", "5", " ",
              "0", "9", ":", "3", "0">>

----------------------------------------------------------------------------
(* Framing *)

WrittenKinds == { Kind(ops[i]) : i \in { j \in 1..Len(ops) : ops[j].op = "write" } }

AllFrameKinds ==
    {"association response", "config-accepted report", "MDS GET",
     "segment-info action", "segment-transfer trigger", "ACK",
     "release request"}

\* C13: every frame handed to write_bulk is one of the seven frames of the
\* dialog and starts with a big-endian u16 type (0xE300, 0xE700 or 0xE400)
\* followed by a big-endian u16 length equal to the size of the frame
\* minus 4, whatever invoke id, PM-store handle and ACK payload it carries.
C13_LengthField ==
    \A i \in 1..Len(ops) :
       ops[i].op = "write" =>
          LET frame == ops[i].data
          IN  /\ Len(frame) >= 4
              /\ \A k \in 1..Len(frame) : frame[k] \in 0..255
              /\ SeqU16(frame, 0) \in {APDU_TYPE_ASSOCIATION_RESPONSE,
                                        APDU_TYPE_PRESENTATION_APDU,
                                        APDU_TYPE_ASSOCIATION_RELEASE_REQUEST}
              /\ SeqU16(frame, 2) = Len(frame) - 4
              /\ Kind(ops[i]) \in AllFrameKinds

\* a complete session wrote each of the seven frames, the ACKs with two
\* different payloads, and two different PM-store handles occur
C13_Witness ==
    /\ pc = "done"
    /\ WrittenKinds = AllFrameKinds
    /\ Len(segs) = 2
    /\ segs[1].u # segs[2].u
    /\ pm_store_handle = 515

----------------------------------------------------------------------------
(* Requests in flight *)

\* the frames that ask the agent for an answer
IsRequest(o) ==
    /\ o.op = "write"
    /\ Kind(o) \in {"MDS GET", "segment-info action",
                     "segment-transfer trigger", "release request"}

\* requests written and not yet followed by a completed read, after the
\* first n transport operations
RECURSIVE Outstanding(_)
Outstanding(n) ==
    IF n = 0 THEN 0
    ELSE IF IsRequest(ops[n]) /\ ops[n].res = "ok" THEN Outstanding(n - 1) + 1
    ELSE IF ops[n].op = "read" /\ ops[n].res = "ok" THEN 0
    ELSE Outstanding(n - 1)

\* C14: at most one request of the manager is outstanding: the transport
\* operation that follows the write of the MDS GET, of a confirmed action
\* or of the release request is a read, no frame is written before a read
\* has completed, and a request whose write failed is the session's last
\* operation.
C14_OneRequestInFlight ==
    /\ \A n \in 0..Len(ops) : Outstanding(n) <= 1
    /\ \A i \in 1..Len(ops) :
          IsRequest(ops[i]) =>
             /\ ops[i].res # "ok" => i = Len(ops)
             /\ i < Len(ops) => ops[i + 1].op = "read"
             /\ \A j \in (i + 1)..Len(ops) :
                   ops[j].op = "write" =>
                      \E k \in (i + 1)..(j - 1) :
                         ops[k].op = "read" /\ ops[k].res = "ok"

\* a complete download: the GET, both actions and the release request
\* were each written and each followed by a completed read
C14_Witness ==
    /\ pc = "done"
    /\ result.kind = "Ok"
    /\ Cardinality({ i \in 1..Len(ops) : IsRequest(ops[i]) }) = 4
    /\ Outstanding(Len(ops)) = 0
    /\ Outstanding(Len(ops) - 1) = 1

----------------------------------------------------------------------------
(* Discovery: which devices are reported *)

\* the device at place k of the bus is in found_devices
Reported(k) == \E j \in 1..Len(found_devices) : found_devices[j].address = k

\* the loop of find_devices has dealt with the device at place k
Scanned(k) == scan_pc \in {"loop", "done"} /\ k < scan_index

InCatalog(device) ==
    \E c \in 1..Len(Catalog) :
       /\ Catalog[c].vendor_id = device.vendor_id
       /\ Catalog[c].product_id = device.product_id

\* one configuration, one interface, one alternate setting, two endpoints,
\* both bulk with 64-byte packets, one IN and one OUT
HasMeterShape(device) ==
    /\ device.num_configurations = 1
    /\ Len(device.interfaces) = 1
    /\ Len(device.interfaces[1]) = 1
    /\ LET eps == device.interfaces[1][1]
       IN  /\ Len(eps) = 2
           /\ \A k \in 1..2 :
                 eps[k].transfer_type = "Bulk" /\ eps[k].max_packet_size = 64
           /\ eps[1].address \div 128 # eps[2].address \div 128

\* C15: a catalog-matched device whose descriptors can be read is accepted
\* by is_valid_accuchek, and so reported by find_devices, if and only if it
\* has exactly one configuration, one interface, one alternate setting and
\* two endpoints, both bulk with 64-byte packets, one IN and one OUT.
C15_ValidationShape ==
    \A k \in 1..Len(bus) :
       (Scanned(k) /\ InCatalog(bus[k]) /\ bus[k].unreadable = "none") =>
          (Reported(k) <=> HasMeterShape(bus[k]))

\* a scan has ended on a bus of two catalog-matched devices: the first has
\* two bulk endpoints of 64 bytes that are both IN and is not reported, the
\* second has the meter's shape and is reported
C15_Witness ==
    /\ scan_pc = "done"
    /\ scan_result.kind = "Ok"
    /\ Len(bus) = 2
    /\ bus[1].interfaces = OneInterface(<<Bulk64(129), Bulk64(130)>>)
    /\ InCatalog(bus[1]) /\ bus[1].unreadable = "none"
    /\ ~Reported(1)
    /\ Reported(2)

\* the places k <= n of the bus holding a catalog-matched device with
\* readable descriptors and the meter's shape, in bus order
RECURSIVE ValidatedPlaces(_)
ValidatedPlaces(n) ==
    IF n = 0 THEN <<>>
    ELSE ValidatedPlaces(n - 1)
         \o (IF /\ InCatalog(bus[n])
                /\ bus[n].unreadable = "none"
                /\ HasMeterShape(bus[n])
             THEN <<n>> ELSE <<>>)

\* C16: when find_devices has ended (rusb::devices() and the reads of the
\* device descriptors at line 54 having succeeded), it returns Ok with
\* exactly the catalog-matched devices that pass validation, in bus order:
\* a device whose validation fails, by its shape or because its descriptors
\* cannot be read, is left out and the scan goes on.
C16_ValidationFailureSkipped ==
    (/\ scan_pc = "done"
     /\ scan_result.msg # "devices"
     /\ \A k \in 1..Len(bus) : bus[k].unreadable # "device") =>
       /\ scan_result.kind = "Ok"
       /\ [j \in 1..Len(scan_result.devices) |-> scan_result.devices[j].address]
             = ValidatedPlaces(Len(bus))

\* alternate setting 0 of the device's interface 0 has an endpoint at
\* `address` that is bulk with 64-byte packets
HasBulkEndpoint(device, address) ==
    /\ Len(device.interfaces) >= 1
    /\ Len(device.interfaces[1]) >= 1
    /\ \E e \in 1..Len(device.interfaces[1][1]) :
          device.interfaces[1][1][e] = Endpoint(address, "Bulk", 64)

\* C17: every device find_devices reports has a bulk OUT endpoint at address
\* 0x01 and a bulk IN endpoint at address 0x81, each with 64-byte packets:
\* the endpoints download_samples uses.
C17_EndpointsExist ==
    \A j \in 1..Len(found_devices) :
       LET device == bus[found_devices[j].address]
       IN  HasBulkEndpoint(device, 1) /\ HasBulkEndpoint(device, 129)

----------------------------------------------------------------------------
(* The phase counter *)

\* C19: the phase field of the ProtocolHandler stays within 1..13 in every
\* state of a download, however many data segments are read (phase is 0
\* here only while no ProtocolHandler has been built).
C19_PhaseWithin13 == phase # 0 => phase \in 1..13

----------------------------------------------------------------------------
(* The PM-store handle *)

\* object k of configuration c is announced and its header is delivered
HeaderDelivered(c, k) ==
    k <= c.count /\ k <= Len(c.objects) /\ ObjectOffset(c, k) + 8 <= c.len

IsPmStoreAt(c, k) ==
    HeaderDelivered(c, k) /\ c.objects[k].class = MDC_MOC_VMO_PMSTORE

\* the handle of the first PM-store object of c
FirstPmStoreHandle(c) ==
    LET k == CHOOSE k \in 1..Len(c.objects) :
                /\ IsPmStoreAt(c, k)
                /\ \A j \in 1..(k - 1) : ~IsPmStoreAt(c, j)
    IN  c.objects[k].handle

\* the frames that name the PM-store
NamesPmStore(o) ==
    /\ o.op = "write"
    /\ Kind(o) \in {"segment-info action", "segment-transfer trigger", "ACK"}

\* C20: when the phase-4 read has delivered configuration c, then either c
\* holds, among its first c.count objects (laid out from offset 28, each
\* 8 + size bytes long), an object of class 61 whose 8-byte header lies
\* within the bytes delivered, and pm_store_handle is the handle of the
\* first such object and is the handle written at bytes [12..14] of the
\* segment-info action, of the transfer trigger and of every segment ACK;
\* or there is none, and the session ends there with a Parse error.
C20_PmStoreHandle ==
    \A c \in ConfigChoices :
       (Len(ops) >= 4 /\ ops[4].res = "ok" /\ ops[4].data = ConfigBytes(c)) =>
          IF c.len >= 28 /\ \E k \in 1..Len(c.objects) : IsPmStoreAt(c, k)
          THEN /\ pm_store_handle = FirstPmStoreHandle(c)
               /\ \A i \in 1..Len(ops) :
                     NamesPmStore(ops[i]) =>
                        SeqU16(ops[i].data, 12) = FirstPmStoreHandle(c)
          ELSE /\ Len(ops) = 4
               /\ exec_result.kind = "Err"
               /\ exec_result.err = "Parse"

\* the configuration with two PM-store objects (handles 7 and 8) was
\* received; both actions and a segment ACK were written with handle 7
C20_Witness ==
    /\ Len(ops) >= 4
    /\ ops[4].data
          = ConfigBytes(Config(267, 2, <<Object(61, 7, 2), Object(61, 8, 0)>>, 46))
    /\ pm_store_handle = 7
    /\ Kind(ops[Len(ops)]) = "ACK"
    /\ SeqU16(ops[Len(ops)].data, 12) = 7
    /\ SeqU16(ops[8].data, 12) = 7
    /\ SeqU16(ops[10].data, 12) = 7

----------------------------------------------------------------------------
(* Two downloads at once *)

\* the configuration report this download received in phase 4
OwnConfig == CHOOSE c \in ConfigChoices : ops[4].data = ConfigBytes(c)

\* the PM-store handle this download was given
OwnHandle == FirstPmStoreHandle(OwnConfig)

\* the 16-bit and 32-bit words at offset k of the receive buffer after the
\* first n operations of this download
ReceivedU16(n, k) == from_be_bytes16(ReceivedByte(n, k), ReceivedByte(n, k + 1))
ReceivedU32(n, k) ==
    from_be_bytes32(ReceivedByte(n, k), ReceivedByte(n, k + 1),
                    ReceivedByte(n, k + 2), ReceivedByte(n, k + 3))

\* the frame a download running alone writes as its i-th transport
\* operation, given what its own reads delivered before
FrameWhenAlone(i) ==
    CASE i = 3  -> PairingConfirmationFrame
      [] i = 5  -> ConfigConfirmationFrame(ReceivedInvokeId(4))
      [] i = 6  -> MdsAttributesFrame((ReceivedInvokeId(5) + 1) % 65536)
      [] i = 8  -> SegmentInfoFrame((ReceivedInvokeId(7) + 1) % 65536, OwnHandle)
      [] i = 10 -> DataSegmentsFrame((ReceivedInvokeId(9) + 1) % 65536, OwnHandle)
      [] i > Len(FixedOrder) /\ IsSegmentRead(ops[i - 1])
                /\ Len(ops[i - 1].data) >= MIN_SEGMENT_LEN
                -> SegmentAckFrame(ReceivedU16(i - 1, 6), OwnHandle,
                                   ReceivedU32(i - 1, 22), ReceivedU32(i - 1, 26),
                                   ReceivedU16(i - 1, 30))
      [] OTHER  -> ReleaseRequestFrame

\* the samples a download running alone has collected from the segments ds
SamplesWhenAlone(ds) ==
    LET es == ExpectedEntries(ds)
    IN  [k \in 1..Len(es) |->
            [id |-> k - 1, mg_dl |-> es[k].value,
             timestamp |-> SextetText(es[k].bcd, <<>>)]]

\* the read ops[i] is followed by update_invoke_id
RefreshesInvokeId(i) ==
    /\ ops[i].op = "read"
    /\ ops[i].res = "ok"
    /\ \/ ops[i].name \in {"config info", "MDS attribute answer",
                           "action request response", "segment headers"}
       \/ ops[i].name = "data segment" /\ Len(ops[i].data) >= MIN_SEGMENT_LEN

\* invoke_id of a download running alone after its first n operations
RECURSIVE InvokeIdWhenAlone(_)
InvokeIdWhenAlone(n) ==
    IF n = 0 THEN 0
    ELSE IF RefreshesInvokeId(n) THEN ReceivedInvokeId(n)
         ELSE InvokeIdWhenAlone(n - 1)

\* the known bytes of the receive buffer of a download running alone after
\* its first n operations: each read overwrites the start of the buffer
RECURSIVE BufferWhenAlone(_)
BufferWhenAlone(n) ==
    IF n = 0 THEN <<>>
    ELSE LET before == BufferWhenAlone(n - 1)
             got    == IF ops[n].op = "read" /\ ops[n].res = "ok"
                       THEN ops[n].data ELSE <<>>
         IN  [k \in 1..(IF Len(got) > Len(before) THEN Len(got) ELSE Len(before))
                 |-> IF k <= Len(got) THEN got[k] ELSE before[k]]

\* the number of transport operations of this download that succeeded
OkOps == Cardinality({ i \in 1..Len(ops) : ops[i].res = "ok" })

\* C18: with two downloads on two devices taking their transport operations
\* in any interleaving, the download that is running (each of the two in
\* turn) is in the state a download has when it runs alone against the
\* reads its own log records: every frame it wrote is the frame built from
\* its own reads, its samples are those of its own segments with ids from 0
\* (so are the samples it returns), invoke_id is the one of its own latest
\* refreshing read, phase counts its own successful operations and the
\* receive buffer holds its own reads.
C18_SessionsIndependent ==
    /\ \A i \in 1..Len(ops) :
          ops[i].op = "write" => ops[i].data = FrameWhenAlone(i)
    /\ samples = SamplesWhenAlone(ParsedSegments)
    /\ sample_id = Len(samples)
    /\ exec_result.kind = "Ok" => exec_result.samples = SamplesWhenAlone(segs)
    /\ result.kind = "Ok" => result.samples = SamplesWhenAlone(segs)
    /\ invoke_id = InvokeIdWhenAlone(Len(ops))
    /\ Len(ops) >= 8 => pm_store_handle = OwnHandle
    /\ Len(ops) > 0 => phase = 1 + OkOps
    /\ Len(ops) = 0 => phase \in {0, 1}
    /\ buffer.data = BufferWhenAlone(Len(ops))

\* both downloads are under way, on devices that gave different PM-store
\* handles and invoke ids: the running one has had a segment of three
\* entries acknowledged and waits for the next, the other one has read its
\* only segment and is about to acknowledge it
C18_Witness ==
    /\ pc = "seg"
    /\ parked.pc = "ack"
    /\ Kind(ops[Len(ops)]) = "ACK"
    /\ pm_store_handle = 515
    /\ parked.pm_store_handle = 16
    /\ invoke_id = 769
    /\ parked.invoke_id = 771
    /\ Len(samples) = 2
    /\ Len(parked.samples) = 1
    /\ parked.samples[1].id = 0

----------------------------------------------------------------------------
(* The payload of a segment ACK *)

IsSegmentAck(o) == o.op = "write" /\ o.name = "segment ACK"

\* C21: every segment ACK directly follows the read of a data segment of
\* at least 33 bytes and is a ConfirmedEventReport (choice 0x0201) of 34
\* bytes with handle = pm_store_handle, relative time 0xFFFFFFFF, event
\* type 0x0D21 and a payload of length 12: bytes [22..32] of that very
\* segment, unchanged, followed by 0x0080.
C21_AckPayload ==
    \A i \in 1..Len(ops) :
       IsSegmentAck(ops[i]) =>
          LET sent == ops[i].data
          IN  /\ i > 1
              /\ IsSegmentRead(ops[i - 1])
              /\ Len(ops[i - 1].data) >= MIN_SEGMENT_LEN
              /\ Len(sent) = 34
              /\ SeqU16(sent, 8) = 513
              /\ SeqU16(sent, 12) = pm_store_handle
              /\ SubSeq(sent, 15, 18) = <<255, 255, 255, 255>>
              /\ SeqU16(sent, 18) = 3361
              /\ SeqU16(sent, 20) = 12
              /\ SubSeq(sent, 23, 32) = SubSeq(ops[i - 1].data, 23, 32)
              /\ SubSeq(sent, 33, 34) = <<0, 128>>

\* two segments with different bytes [22..30] were acknowledged, each ACK
\* carrying the bytes of its own segment
C21_Witness ==
    /\ Len(segs) = 2
    /\ Len(ops) = Len(FixedOrder) + 4
    /\ IsSegmentAck(ops[Len(ops)])
    /\ IsSegmentAck(ops[Len(ops) - 2])
    /\ segs[1].u # segs[2].u
    /\ SubSeq(ops[Len(ops)].data, 23, 30) = segs[2].u
    /\ SubSeq(ops[Len(ops) - 2].data, 23, 30) = segs[1].u

----------------------------------------------------------------------------
(* The layout of a data segment, read from the delivered bytes *)

\* the entries of a delivered segment: nb_entries is the u16 at offset 30,
\* entry i (from 0) starts at 30 + 12 * i and has its date at [6..12],
\* its value at [14..16] and its status at [16..18] from there; an entry
\* counts when its 18 bytes were delivered
LaidOutEntries(data) ==
    LET nb == SeqU16(data, 30)
        n  == Cardinality({ i \in 0..(Len(data) \div 12) :
                               i < nb /\ 30 + 12 * i + 18 <= Len(data) })
    IN  [k \in 1..n |->
            LET start == 30 + 12 * (k - 1)
            IN  [bcd    |-> SubSeq(data, start + 7, start + 12),
                 value  |-> SeqU16(data, start + 14),
                 status |-> SeqU16(data, start + 16)]]

\* the entries with status 0 laid out in the segments delivered by the
\* first n operations, in order
RECURSIVE LaidOutValid(_)
LaidOutValid(n) ==
    IF n = 0 THEN <<>>
    ELSE LaidOutValid(n - 1)
         \o (IF IsSegmentRead(ops[n]) /\ Len(ops[n].data) >= MIN_SEGMENT_LEN
             THEN LET es == LaidOutEntries(ops[n].data)
                  IN  EntriesWithStatus0(es, Len(es))
             ELSE <<>>)

\* C22: the samples collected are, in order, the entries of the delivered
\* segments read with this layout: nb_entries is the u16 at offset 30 of the
\* segment; entry i (from 0) starts at offset 30 + 12 * i; its status is
\* the u16 at [16..18] from that start (the entry is emitted when it is 0),
\* its value the u16 at [14..16] and its timestamp the text of the BCD
\* sextet at [6..12].  (The segment whose parse failed contributes nothing.)
C22_EntryLayout ==
    LET es == LaidOutValid(IF ParseFailed THEN Len(ops) - 1 ELSE Len(ops))
    IN  /\ Len(samples) = Len(es)
        /\ \A k \in 1..Len(es) :
              /\ samples[k].mg_dl = es[k].value
              /\ samples[k].timestamp = SextetText(es[k].bcd, <<>>)

\* a segment of three entries was parsed: the third entry (i = 2, start
\* 54) gave the second sample, its value 258 taken from bytes [68..70],
\* which lie beyond the 12 bytes [54..66] of that entry
C22_Witness ==
    /\ pc = "ack"
    /\ Len(segs) = 1
    /\ segs[1].nb = 3
    /\ Len(samples) = 2
    /\ samples[2].mg_dl = 258
    /\ SeqU16(ops[Len(ops)].data, 68) = 258
    /\ SeqU16(ops[Len(ops)].data, 70) = 0
    /\ SeqU16(ops[Len(ops)].data, 30) = 3

----------------------------------------------------------------------------
(* Segments that announce more entries than they hold *)

\* the first entry (from 0) of segment d that is not wholly delivered, or
\* d.nb when every announced entry is
StopIndex(d) ==
    CHOOSE i \in 0..d.nb :
       /\ i = d.nb \/ 30 + 12 * i + 18 > d.len
       /\ \A j \in 0..(i - 1) : 30 + 12 * j + 18 <= d.len

\* the BCD sextet decodes to a date and time of the calendar
DateIsValid(bcd) ==
    ParsesAsDateTime(bcd_decode(bcd[1]) * 100 + bcd_decode(bcd[2]),
                     bcd_decode(bcd[3]), bcd_decode(bcd[4]),
                     bcd_decode(bcd[5]), bcd_decode(bcd[6]))

\* the entries of d before StopIndex(d) whose status is 0
HeldValid(d) == EntriesWithStatus0(d.entries, StopIndex(d))

\* segment d has at least 33 bytes, announces more entries than it holds
\* or no entry at all, and the entries it holds have valid dates
CutOrEmpty(d) ==
    /\ d.len >= MIN_SEGMENT_LEN
    /\ d.nb = 0 \/ StopIndex(d) < d.nb
    /\ StopIndex(d) <= Len(d.entries)
    /\ \A j \in 1..StopIndex(d) :
          d.entries[j].status = 0 => DateIsValid(d.entries[j].bcd)

\* C23: segment k of a download (read as operation 10 + 2k) that announces
\* more entries than its bytes hold is parsed without error up to the first
\* entry i with 30 + 12 * i + 18 > bytes_read: the download goes on to
\* acknowledge it, and the samples it adds are those of the entries before
\* i with status 0; a segment with nb_entries = 0 adds none and is
\* acknowledged too.  (A panic of the time-zone conversion aside.)
C23_TruncatedSegment ==
    \A k \in 1..Len(segs) :
       LET d == segs[k]
           i == 10 + 2 * k
       IN  (CutOrEmpty(d) /\ ~(k = Len(segs) /\ result = Panicked)) =>
              /\ IsSegmentRead(ops[i])
              /\ ops[i].data = SegmentBytes(d)
              /\ i = Len(ops) => pc = "ack" /\ exec_result.kind = "None"
              /\ i < Len(ops) => IsSegmentAck(ops[i + 1])
              /\ k = Len(segs) =>
                    LET before == SamplesWhenAlone(SubSeq(segs, 1, k - 1))
                        held   == HeldValid(d)
                    IN  /\ Len(samples) = Len(before) + Len(held)
                        /\ \A j \in 1..Len(held) :
                              samples[Len(before) + j].mg_dl = held[j].value
                        /\ d.nb = 0 => samples = before

\* a segment announcing no entry and then a segment of 59 bytes announcing
\* three entries were read: the second holds one entry whole (bytes up to
\* 48; the next would end at 60), gave the only sample and was acknowledged
C23_Witness ==
    /\ Len(segs) = 2
    /\ segs[1].nb = 0
    /\ segs[2].nb = 3
    /\ segs[2].len = 59
    /\ StopIndex(segs[2]) = 1
    /\ IsSegmentAck(ops[Len(ops)])
    /\ IsSegmentAck(ops[Len(ops) - 2])
    /\ Len(samples) = 1
    /\ samples[1].mg_dl = 130

----------------------------------------------------------------------------
(* BCD bytes *)

\* C24: for every byte b in 0..255, bcd_decode(b) is (b >> 4) * 10 +
\* (b & 0x0F) computed without wrap-around: the sum stays within 8 bits
\* (at most 165, for b = 0xFF), also when a nibble exceeds 9.
C24_BcdDecode ==
    LET high == decode_arg \div 16
        low  == decode_arg % 16
    IN  /\ high * 10 + low <= 165
        /\ decode_out # -1 => decode_out = high * 10 + low

\* 0xFF, both nibbles above 9, was decoded to 165
C24_Witness ==
    /\ decode_arg = 255
    /\ decode_out = 165

----------------------------------------------------------------------------
(* Short writes *)

IsShortWrite(o) == o.op = "write" /\ o.res = "short"

\* C25: a bulk write that reports fewer bytes written than the frame has
\* is the last transport operation of the session: execute returns the
\* Transfer error, phase stays at the value it had before the write (one
\* more than the number of operations that succeeded) and nothing is
\* written or read afterwards; what follows is the release of the interface.
C25_ShortWrite ==
    \A i \in 1..Len(ops) :
       IsShortWrite(ops[i]) =>
          /\ i = Len(ops)
          /\ exec_result = TransferError
          /\ phase = 1 + OkOps
          /\ phase = 1 + (i - 1)
          /\ pc \in {"release", "done"}
          /\ pc = "done" => result \in {TransferError, UsbFailure("release_interface")}

\* the ACK of the first segment was written short: the download ended with
\* the Transfer error after 13 operations, phase still 13
C25_Witness ==
    /\ pc = "done"
    /\ Len(ops) = Len(FixedOrder) + 2
    /\ IsSegmentAck(ops[Len(ops)])
    /\ IsShortWrite(ops[Len(ops)])
    /\ result = TransferError
    /\ phase = 13
    /\ releases = 1

----------------------------------------------------------------------------
(* invoke_id + 1 *)

\* the download stopped by a panic before its request of phase 6, 8 or 10
\* was written
PanickedBeforeRequest == result = Panicked /\ Len(ops) \in {5, 7, 9}

\* C26: the requests of phases 6, 8 and 10 (operations 6, 8 and 10) carry
\* at bytes [6..8] the received invoke id plus 1 as a 16-bit value, for
\* every received invoke id, 0xFFFF included (the field is then 0): the
\* download is never aborted while building one of these requests, and the
\* frame has the length its header announces.
C26_InvokeIdPlusOne ==
    /\ ~PanickedBeforeRequest
    /\ \A i \in {6, 8, 10} :
          i <= Len(ops) =>
             /\ SeqU16(ops[i].data, 6) = (ReceivedInvokeId(i - 1) + 1) % 65536
             /\ Len(ops[i].data) = SeqU16(ops[i].data, 2) + 4

----------------------------------------------------------------------------
(* Reads of the receive buffer stay within it *)

\* C27: whatever lengths and bytes the reads deliver, after every read the
\* buffer has the length asked of that read (1024, or 64 for the
\* association request), the slice handed to the transport ends within it,
\* and every index at which update_invoke_id, parse_pm_store_handle,
\* read_data_segments and parse_segment_samples then read the buffer is
\* below its length.
C27_IndexInBounds ==
    Len(ops) > 0 =>
       LET o == ops[Len(ops)]
       IN  o.op = "read" =>
              /\ buffer.len = o.max_len
              /\ Len(o.data) <= o.max_len
              /\ TopOfBulkIn(o.max_len) < buffer.len
              /\ TopOfParsing(o, buffer) < buffer.len

\* a configuration report of 1024 bytes was read whose PM-store object has
\* its header in the last 8 bytes: parse_pm_store_handle read the buffer up
\* to its last byte, index 1023
C27_Witness ==
    /\ Len(ops) = 4
    /\ Len(ops[4].data) = BUFFER_SIZE
    /\ pm_store_handle = 16
    /\ pc = "p5"
    /\ TopOfParsing(ops[4], buffer) = BUFFER_SIZE - 1

----------------------------------------------------------------------------
(* What lies in the receive buffer beyond the bytes of the latest read *)

\* what a receive buffer may hold beyond the delivered bytes in another run
LeftoverFills == {0, 255}

\* the buffer b after a read of n bytes, had the bytes beyond the first n
\* been `fill` instead of what the earlier reads left there
WithLeftover(b, n, fill) ==
    [len  |-> b.len,
     data |-> [k \in 1..Max(n, Len(b.data)) |->
                  IF k <= n THEN b.data[k] ELSE fill]]

\* the frame written as operation i right after the read ops[i - 1], had
\* that read found the buffer b: the frames of phases 5, 8 and 10 and the
\* segment ACK carry what the session takes from the buffer; the
\* association response and the release request carry nothing of it
FrameAfterRead(i, b) ==
    LET id == UpdateInvokeId(b, 6).id
        a  == SegmentAckData(b)
    IN  CASE i = 5  -> ConfigConfirmationFrame(id)
          [] i = 8  -> SegmentInfoFrame((id + 1) % 65536, pm_store_handle)
          [] i = 10 -> DataSegmentsFrame((id + 1) % 65536, pm_store_handle)
          [] i > Len(FixedOrder) /\ Kind(ops[i]) = "ACK"
                    -> SegmentAckFrame(id, pm_store_handle, a.u0, a.u1, a.u2)
          [] OTHER  -> ops[i].data

\* C28: the frames a session writes and the samples it collects depend only
\* on the bytes each read delivered: had the receive buffer held anything
\* else beyond the delivered bytes of the latest read, the frame written
\* next and the samples taken from a segment would be the same.
C28_LeftoverIgnored ==
    Len(ops) > 0 =>
       LET i == Len(ops)
           o == ops[i]
       IN  /\ (o.op = "read" /\ o.res = "ok" /\ o.name = "data segment") =>
                 \A fill \in LeftoverFills, gap \in -1..2 :
                    ParseSegmentSamples(
                        WithLeftover(buffer, Len(o.data), fill),
                        0, Len(o.data), gap)
                    = ParseSegmentSamples(buffer, 0, Len(o.data), gap)
           /\ (i > 1 /\ o.op = "write" /\ o.res = "ok"
                  /\ ops[i - 1].op = "read" /\ ops[i - 1].res = "ok") =>
                 \A fill \in LeftoverFills :
                    o.data = FrameAfterRead(i,
                                 WithLeftover(buffer, Len(ops[i - 1].data), fill))

----------------------------------------------------------------------------
(* The association release request *)

IsReleaseRequest(o) == o.op = "write" /\ Kind(o) = "release request"

\* a release request was handed to the transport
ReleaseRequested == \E i \in 1..Len(ops) : IsReleaseRequest(ops[i])

\* phases 1 to 12 are over with operation n and nothing failed in them:
\* every operation up to n completed and n ends the segment loop, being a
\* segment read of fewer than 33 bytes or the ACK of a segment whose status
\* byte has bit 0x40
LoopEndsAt(n) ==
    /\ n > Len(FixedOrder)
    /\ n <= Len(ops)
    /\ \A j \in 1..n : ops[j].res = "ok"
    /\ \/ IsSegmentRead(ops[n]) /\ Len(ops[n].data) < MIN_SEGMENT_LEN
       \/ /\ Kind(ops[n]) = "ACK"
          /\ IsSegmentRead(ops[n - 1])
          /\ (ops[n - 1].data[33] \div 64) % 2 = 1

PhasesCompleted == \E n \in 1..Len(ops) : LoopEndsAt(n)

\* the errors execute can return from phases 1 to 12
IsSessionError(e) ==
    \/ e = TransferError
    \/ e = DateError
    \/ e.kind = "Err" /\ e.err \in {"Usb", "Parse"}

\* the step that raised the error of execute is the last transport
\* operation: a transfer that failed, or a read whose bytes were rejected
FailedLast ==
    /\ Len(ops) > 0
    /\ LET o == ops[Len(ops)]
       IN  IF exec_result.err \in {"Parse", "Chrono"}
           THEN o.op = "read" /\ o.res = "ok"
           ELSE /\ o.res # "ok"
                /\ (exec_result = TransferError) <=> (o.res = "short")

\* C29: the release request is written exactly when phases 1 to 12 all
\* completed without error: it is the operation right after the one that
\* ends the segment loop, and once the loop has ended that way it is the
\* next thing the session does.  A session that ends on an error of phases 1
\* to 12 (transport failure, short write, Parse error, date error) has
\* written no release request: its failing step is its last transport
\* operation and only release_interface follows.
C29_ReleaseRequestIffCompleted ==
    /\ \A i \in 1..Len(ops) :
          IsReleaseRequest(ops[i]) => (i > 1 /\ LoopEndsAt(i - 1))
    /\ (PhasesCompleted /\ pc # "p13w") => ReleaseRequested
    /\ (pc \in {"release", "done"} /\ ~PhasesCompleted) =>
          /\ ~ReleaseRequested
          /\ exec_result.kind = "Err" =>
                /\ IsSessionError(exec_result)
                /\ FailedLast
                /\ pc = "done" => releases >= 1

\* execute returned a date error from the second segment, after a first
\* segment was acknowledged: no release request was written and the
\* interface was released
C29_Witness ==
    /\ pc = "done"
    /\ exec_result = DateError
    /\ Len(segs) = 2
    /\ Kinds(SubSeq(ops, Len(FixedOrder) + 1, Len(ops))) = <<"read", "ACK", "read">>
    /\ ~ReleaseRequested
    /\ releases = 1

----------------------------------------------------------------------------
(* Entries whose date is not a date *)

\* the entries of segment d that the walk reaches (those lying whole
\* within the delivered bytes, at most d.nb)
Walked(d) == 1..Min(StopIndex(d), Len(d.entries))

\* segment d has at least 33 bytes and an entry with status 0 that the walk
\* reaches and whose BCD fields decode to no date and time of the calendar
HasInvalidDate(d) ==
    /\ d.len >= MIN_SEGMENT_LEN
    /\ \E j \in Walked(d) :
          d.entries[j].status = 0 /\ ~DateIsValid(d.entries[j].bcd)

\* the only invalid dates segment d holds are in entries with status # 0
InvalidDateFiltered(d) ==
    /\ d.len >= MIN_SEGMENT_LEN
    /\ ~HasInvalidDate(d)
    /\ \E j \in Walked(d) :
          d.entries[j].status # 0 /\ ~DateIsValid(d.entries[j].bcd)

\* C30: segment k of a download (read as operation 10 + 2k) with an entry
\* of status 0 whose decoded BCD fields form no valid date and time ends
\* the download: execute returns the date error, the read of that segment
\* is the last transport operation (no ACK, no release request) and the
\* download returns an error, none of the samples collected before.  The
\* same date in an entry with status # 0 raises nothing: the segment is
\* acknowledged and the entry gives no sample.  (A panic of the time-zone
\* conversion at an earlier entry aside.)
C30_InvalidDateFails ==
    \A k \in 1..Len(segs) :
       LET d == segs[k]
           i == 10 + 2 * k
       IN  ~(k = Len(segs) /\ result = Panicked) =>
              /\ HasInvalidDate(d) =>
                    /\ k = Len(segs)
                    /\ i = Len(ops)
                    /\ IsSegmentRead(ops[i])
                    /\ ~ReleaseRequested
                    /\ exec_result = DateError
                    /\ pc \in {"release", "done"}
                    /\ pc = "done" => result.kind = "Err" /\ result.samples = <<>>
              /\ InvalidDateFiltered(d) =>
                    /\ exec_result # DateError
                    /\ i = Len(ops) => pc = "ack" /\ exec_result.kind = "None"
                    /\ i < Len(ops) => IsSegmentAck(ops[i + 1])
                    /\ k = Len(segs) =>
                          Readings(samples) = ExpectedAll(segs)

\* after a segment that gave two samples and was acknowledged, a segment
\* whose second entry has status 0 and month 13 was read: the download
\* returned the date error and neither an ACK nor a release request
\* followed the read
C30_Witness ==
    /\ pc = "done"
    /\ Len(segs) = 2
    /\ segs[1].iid = 769
    /\ segs[2].iid = 774
    /\ HasInvalidDate(segs[2])
    /\ Len(samples) = 2
    /\ result = DateError
    /\ Len(ops) = Len(FixedOrder) + 3
    /\ IsSegmentRead(ops[Len(ops)])

----------------------------------------------------------------------------
(* The end of a download *)

\* download_samples is over
Ended == pc = "done"

\* download_samples has returned a value
Returned == pc = "done" /\ result.kind \in {"Ok", "Err"}

\* C31: with every transport call returning and the agent ending the
\* segment stream (by a segment shorter than 33 bytes or one with bit 0x40
\* of byte 32) or a transport call failing, every download ends, and it
\* ends with Ok or Err.
C31_Terminates == <>Ended /\ [](Ended => Returned)

----------------------------------------------------------------------------
(* What download_samples returns after execute *)

\* the error of a failed release_interface(0)
ReleaseError == UsbFailure("release_interface")

\* the step from `release` to `done` in which release_interface(0)
\* succeeded: one release was attempted.  (After a failure the drop of the
\* handle releases the interface, still recorded as claimed, once more.)
ReleaseSucceeded == releases' = releases + 1

\* C32: the step that leaves download_samples after execute returns the
\* value of execute (the samples, or the error of the session) exactly when
\* release_interface(0) succeeded, and the error of release_interface when
\* it failed, whatever execute returned.
C32_ReleaseErrorReplaces ==
    [][ (pc = "release" /\ pc' = "done") =>
          /\ claimed
          /\ exec_result.kind \in {"Ok", "Err"}
          /\ exec_result # ReleaseError
          /\ ReleaseSucceeded <=> result' = exec_result
          /\ ~ReleaseSucceeded => result' = ReleaseError ]_vars

\* execute returned three samples after the release exchange, the release
\* of the interface failed, and the download returned that error
C32_Witness ==
    /\ pc = "done"
    /\ exec_result.kind = "Ok"
    /\ Len(exec_result.samples) = 3
    /\ Kind(ops[Len(ops) - 1]) = "release request"
    /\ releases = 2
    /\ result = ReleaseError

----------------------------------------------------------------------------
(* One ACK for each parsed segment *)

\* the ACK frames handed to the transport so far
AcksWritten == { i \in 1..Len(ops) : IsSegmentAck(ops[i]) }

\* the reads of data segments of at least 33 bytes whose parsing succeeded:
\* a date error or a panic concerns the latest read
ParsedReads ==
    { i \in 1..Len(ops) :
         /\ IsSegmentRead(ops[i])
         /\ Len(ops[i].data) >= MIN_SEGMENT_LEN
         /\ ~(i = Len(ops) /\ ParseFailed) }

\* C33: every data segment of at least 33 bytes whose parsing succeeded is
\* acknowledged once, by the transport operation right after its read, so
\* before any further segment is read: the ACK frames written are as many
\* as these segments (one fewer while the latest of them awaits its ACK),
\* each ACK directly follows such a read, and none follows a segment
\* shorter than 33 bytes.
C33_OneAckPerSegment ==
    /\ Cardinality(AcksWritten)
          = Cardinality(ParsedReads) - (IF pc = "ack" THEN 1 ELSE 0)
    /\ \A i \in ParsedReads :
          /\ i = Len(ops) => pc = "ack"
          /\ i < Len(ops) => IsSegmentAck(ops[i + 1])
    /\ \A i \in AcksWritten : i - 1 \in ParsedReads
    /\ \A i \in 1..Len(ops) :
          (IsSegmentRead(ops[i]) /\ Len(ops[i].data) < MIN_SEGMENT_LEN
              /\ i < Len(ops)) => ~IsSegmentAck(ops[i + 1])

\* two segments were read and acknowledged in turn, then a segment of 20
\* bytes ended the loop without an ACK and the release request was written
C33_Witness ==
    /\ Len(segs) = 3
    /\ segs[3].len = 20
    /\ Cardinality(AcksWritten) = 2
    /\ Cardinality(ParsedReads) = 2
    /\ Kinds(SubSeq(ops, Len(FixedOrder) + 1, Len(ops)))
          = <<"read", "ACK", "read", "ACK", "read", "release request">>

====
